---- MODULE Spec2Model ----
(***************************************************************************)
(* A model of rust-xarray: the 64-ary radix tree (RawXArray), its search   *)
(* state machine (State) and the cursor / range facade.                    *)
(*                                                                         *)
(* Entries are machine words as in node.rs: the low two bits are the tag.  *)
(* Nodes live in a heap indexed by node ids; a node pointer is the address *)
(* NodeAddr(id).  Keys are unsigned integers of IndexBits bits (the        *)
(* program uses u64; the width is a bound of the model), and every         *)
(* operation on them wraps or panics where the Rust operation does.        *)
(***************************************************************************)
EXTENDS Integers, Sequences, FiniteSets, TLC

\* ------------------------------------------------------------------ bounds

\* Width of a key in bits (u64 in the program).  16 = 2 * 6 + 4 keeps the
\* shape of u64 = 10 * 6 + 4: the topmost node uses only 16 of its slots and
\* CHUNK_SIZE << shift wraps to 0 for a root of maximum height.
IndexBits == 16
\* Largest number of keys holding a value at one time.
MaxLive == 3
\* Largest number of next() calls made on one range iterator.
MaxCalls == 5
\* Number of contiguous keys 0 .. FillCount - 1 a dense fill inserts: two
\* full leaves of 64 keys and the start of a third.
FillCount == 130
\* Largest number of marks set on live values at one time.
MaxMarked == 2

\* ------------------------------------------------------- program constants

CHUNK_SHIFT == 6
CHUNK_SIZE == 2 ^ CHUNK_SHIFT
CHUNK_MASK == CHUNK_SIZE - 1
\* bits of count, nr_value, offset, shift (u8)
U8_BITS == 8

IndexMod == 2 ^ IndexBits
U64_MAX == IndexMod - 1
Offsets == 0 .. CHUNK_MASK
XaMark == {0, 1, 2}

\* Number of node levels a key needs at most, and the size of the heap: no
\* reachable tree holds more nodes than one full path per live key.
Levels == (IndexBits + CHUNK_SHIFT - 1) \div CHUNK_SHIFT
NodeIds == 1 .. (Levels * MaxLive)

Min(S) == CHOOSE x \in S : \A y \in S : x <= y
Max(S) == CHOOSE x \in S : \A y \in S : x >= y
Bit(b) == IF b THEN 1 ELSE 0
\* the element of a one-element set: The({ e(x) : x \in {v} }) is e(v), with
\* v computed once
The(S) == CHOOSE x \in S : TRUE

\* x >> s and x << s on keys (the latter drops the bits shifted out)
Shr(x, s) == x \div (2 ^ s)
Shl(x, s) == (x * (2 ^ s)) % IndexMod

\* ------------------------------------------------------------ tagged entry

\* Addresses.  A value reference &T and a leaked Box<Node<T>> are aligned
\* addresses; nodes lie above the first page.
ValueAddr(v) == 8 * v
NodeAddr(n) == 4096 + 1024 * n

EMPTY == 0
value(v) == ValueAddr(v) + 1
node(n) == NodeAddr(n) + 2
sibling(v) == v * 4

is_null(e) == e = 0
is_internal(e) == e % 4 = 2
is_value(e) == e % 2 = 1
is_node(e) == is_internal(e) /\ e > 4096
has_value(e) == e # EMPTY
is_sibling(e) == is_internal(e) /\ e < ((CHUNK_SIZE - 1) * 4 + 2)
\* the node id behind a node entry, the value behind a value entry
as_node(e) == ((e - 2) - 4096) \div 1024
as_value(e) == (e - 1) \div 8
as_sibling(e) == e \div 4

\* ------------------------------------------------------------------- node

NoNode == [free |-> TRUE]

\* Node::new, given the parent entry
NewNode(shift, parent) ==
    [shift |-> shift, offset |-> 0, count |-> 0, nr_value |-> 0,
     parent |-> parent,
     slots |-> <<>>,
     marks |-> [k \in XaMark |-> {}]]

\* The slots [RawEntry; CHUNK_SIZE] of a node are kept as the map from the
\* offsets of its non-empty slots to their entries; every other slot is EMPTY.
\* Node::entry, read and written (offset is a valid index: callers check)
node_entry(nd, offset) == IF offset \in DOMAIN nd.slots THEN nd.slots[offset] ELSE EMPTY
set_entry(slots, offset, e) ==
    IF e = EMPTY THEN [j \in DOMAIN slots \ {offset} |-> slots[j]]
    ELSE [j \in DOMAIN slots \cup {offset} |-> IF j = offset THEN e ELSE slots[j]]

\* a get_offset that takes the low bits of the key at every level
get_offset_unshifted(nd, index) == index % CHUNK_SIZE

\* Node::get_offset
get_offset(nd, index) == Shr(index, nd.shift) % CHUNK_SIZE

\* Node::max_index: (CHUNK_SIZE << shift) - 1 with a checked subtraction
node_max_index_overflows(nd) == Shl(CHUNK_SIZE, nd.shift) = 0
node_max_index(nd) == (Shl(CHUNK_SIZE, nd.shift) - 1) % IndexMod

\* ------------------------------------------------------------ the machine
\* A machine bundles what a State method reads and writes: the tree root
\* (xa), the heap of nodes, the search state (xas), the entry the method
\* returned (ret) and whether it panicked.

Restart == [kind |-> "Restart", n |-> 0]
Empty == [kind |-> "Empty", n |-> 0]
Bound == [kind |-> "Bound", n |-> 0]
Node(n) == [kind |-> "Node", n |-> n]

is_some(st) == st.kind = "Node"

\* State::new
NewState(index) ==
    [index |-> index, shift |-> 0, sibs |-> 0, offset |-> 0, node |-> Restart]

\* RawXArray::new
NewXa == [marks |-> {}, head |-> EMPTY]

Ret(m, e) == [m EXCEPT !.ret = e]
Panic(m, why) == [m EXCEPT !.panic = why]
Ok(m) == m.panic = ""

\* the node the search state points to
CurNode(m) == m.heap[m.xas.node.n]

\* RawEntry::max_index
entry_max_index(m, e) ==
    IF is_node(e)
    THEN (Shl(CHUNK_SIZE, m.heap[as_node(e)].shift) - 1) % IndexMod
    ELSE 0

\* RawXArray::is_marked
is_marked(xa, mark) == mark \in xa.marks

\* a descend that does not record the offset it went to
descend_offset_kept(m, n) ==
    LET nd == m.heap[n]
        offset0 == get_offset(nd, m.xas.index)
        entry0 == node_entry(nd, offset0)
        offset == IF is_sibling(entry0) THEN as_sibling(entry0) ELSE offset0
        entry1 == IF is_sibling(entry0) THEN node_entry(nd, offset) ELSE entry0
    IN  [m EXCEPT !.xas.node = Node(n), !.ret = entry1]

\* a descend that records the offset it went to in the node as well
descend_offset_stored(m, n) ==
    LET nd == m.heap[n]
        offset0 == get_offset(nd, m.xas.index)
        entry0 == node_entry(nd, offset0)
        offset == IF is_sibling(entry0) THEN as_sibling(entry0) ELSE offset0
        entry1 == IF is_sibling(entry0) THEN node_entry(nd, offset) ELSE entry0
    IN  [m EXCEPT !.xas.node = Node(n), !.xas.offset = offset, !.ret = entry1,
                  !.heap[n].offset = offset]

\* State::descend
descend(m, n) ==
    LET nd == m.heap[n]
        offset0 == get_offset(nd, m.xas.index)
        entry0 == node_entry(nd, offset0)
        offset == IF is_sibling(entry0) THEN as_sibling(entry0) ELSE offset0
        entry1 == IF is_sibling(entry0) THEN node_entry(nd, offset) ELSE entry0
    IN  [m EXCEPT !.xas.node = Node(n), !.xas.offset = offset, !.ret = entry1]

\* State::load, the descent loop
RECURSIVE LoadLoop(_, _)
LoadLoop(m, entry) ==
    IF ~is_node(entry) THEN Ret(m, entry)
    ELSE LET n == as_node(entry) IN
         IF m.xas.shift > m.heap[n].shift THEN Ret(m, node(n))
         ELSE The({ IF CurNode(d).shift = 0 THEN d ELSE LoadLoop(d, d.ret)
                    : d \in {descend(m, n)} })

\* State::load
load(m) ==
    IF is_some(m.xas.node)
    THEN IF m.xas.offset \notin Offsets THEN Panic(Ret(m, EMPTY), "index")
         ELSE LoadLoop(m, node_entry(CurNode(m), m.xas.offset))
    ELSE LET head == m.xa.head IN
         IF is_node(head)
            /\ Shr(m.xas.index, m.heap[as_node(head)].shift) > CHUNK_MASK
         THEN Ret([m EXCEPT !.xas.node = Bound], EMPTY)
         ELSE IF ~is_node(head) /\ is_value(head) /\ m.xas.index # 0
         THEN Ret([m EXCEPT !.xas.node = Bound], EMPTY)
         ELSE LoadLoop([m EXCEPT !.xas.node = Empty], head)

\* State::set_mark, the walk to the root
RECURSIVE SetMarkWalk(_, _, _, _)
SetMarkWalk(heap, n, offset, mark) ==
    LET h == [heap EXCEPT ![n].marks[mark] = @ \cup {offset}]
        parent == heap[n].parent
    IN  IF is_node(parent)
        THEN SetMarkWalk(h, as_node(parent), heap[n].offset, mark)
        ELSE h

\* a set_mark that flips the bit of the slot instead of setting it
set_mark_flipped(m, mark) ==
    LET h == IF is_some(m.xas.node)
             THEN [m.heap EXCEPT ![m.xas.node.n].marks[mark] =
                      IF m.xas.offset \in @ THEN @ \ {m.xas.offset}
                      ELSE @ \cup {m.xas.offset}]
             ELSE m.heap
    IN  [m EXCEPT !.heap = h, !.xa.marks = @ \cup {mark}]

\* State::set_mark
set_mark(m, mark) ==
    LET h == IF is_some(m.xas.node)
             THEN SetMarkWalk(m.heap, m.xas.node.n, m.xas.offset, mark)
             ELSE m.heap
    IN  [m EXCEPT !.heap = h, !.xa.marks = @ \cup {mark}]

\* a walk of unset_mark that goes on to the root whatever bits the nodes
\* still hold
RECURSIVE UnsetMarkWalk_not_stopped(_, _, _, _)
UnsetMarkWalk_not_stopped(heap, n, offset, mark) ==
    LET h == [heap EXCEPT ![n].marks[mark] = @ \ {offset}]
        parent == heap[n].parent
    IN  IF is_node(parent)
        THEN UnsetMarkWalk_not_stopped(h, as_node(parent), heap[n].offset, mark)
        ELSE [heap |-> h, top |-> TRUE]

\* State::unset_mark, the walk to the root: the heap, and whether the walk
\* passed the root (and so clears the root's bit)
RECURSIVE UnsetMarkWalk(_, _, _, _)
UnsetMarkWalk(heap, n, offset, mark) ==
    LET h == [heap EXCEPT ![n].marks[mark] = @ \ {offset}]
        parent == heap[n].parent
    IN  IF h[n].marks[mark] # {} THEN [heap |-> h, top |-> FALSE]
        ELSE IF is_node(parent)
        THEN UnsetMarkWalk(h, as_node(parent), heap[n].offset, mark)
        ELSE [heap |-> h, top |-> TRUE]

\* an unset_mark that clears the bit of the array whatever the nodes hold
unset_mark_root_cleared(m, mark) ==
    LET w == IF is_some(m.xas.node)
             THEN UnsetMarkWalk(m.heap, m.xas.node.n, m.xas.offset, mark)
             ELSE [heap |-> m.heap, top |-> TRUE]
    IN  [m EXCEPT !.heap = w.heap, !.xa.marks = @ \ {mark}]

\* State::unset_mark
unset_mark(m, mark) ==
    LET w == IF is_some(m.xas.node)
             THEN UnsetMarkWalk(m.heap, m.xas.node.n, m.xas.offset, mark)
             ELSE [heap |-> m.heap, top |-> TRUE]
    IN  [m EXCEPT !.heap = w.heap,
                  !.xa.marks = IF w.top THEN @ \ {mark} ELSE @]

\* ---------------------------------------------------- allocation, growth

\* u8 arithmetic with Rust's overflow checks: a checked build panics, an
\* unchecked build wraps
U8Mod == 2 ^ U8_BITS
u8_overflows(x) == x < 0 \/ x >= U8Mod
u8_wrap(x) == x % U8Mod

FreeIds(heap) == {i \in NodeIds : heap[i] = NoNode}

\* Box::from_raw(node) dropped
FreeNode(heap, n) == [heap EXCEPT ![n] = NoNode]

\* an alloc that leaves the count of the parent as it was
alloc_uncounted(m, shift) ==
    IF ~(m.xas.node = Empty \/ is_some(m.xas.node)) THEN Ret(m, 0)
    ELSE IF FreeIds(m.heap) = {} THEN Panic(Ret(m, 0), "oom")
    ELSE LET id == Min(FreeIds(m.heap))
             parent == IF m.xas.node = Empty THEN EMPTY ELSE node(m.xas.node.n)
             fresh == NewNode(shift, parent)
         IN  IF is_some(m.xas.node)
             THEN LET p == m.xas.node.n
                      c == m.heap[p].count
                      h == [m.heap EXCEPT
                              ![id] = [fresh EXCEPT !.offset = m.xas.offset],
                              ![p].count = u8_wrap(c)]
                  IN  IF u8_overflows(c) /\ m.checks
                      THEN Panic(Ret(m, 0), "overflow")
                      ELSE Ret([m EXCEPT !.heap = h], id)
             ELSE Ret([m EXCEPT !.heap[id] = fresh], id)

\* State::alloc (with Node::new): ret is the new node's id, 0 for None.  A
\* full heap is the allocator aborting the process.
alloc(m, shift) ==
    IF ~(m.xas.node = Empty \/ is_some(m.xas.node)) THEN Ret(m, 0)
    ELSE IF FreeIds(m.heap) = {} THEN Panic(Ret(m, 0), "oom")
    ELSE LET id == Min(FreeIds(m.heap))
             parent == IF m.xas.node = Empty THEN EMPTY ELSE node(m.xas.node.n)
             fresh == NewNode(shift, parent)
         IN  IF is_some(m.xas.node)
             THEN LET p == m.xas.node.n
                      c == m.heap[p].count + 1
                      h == [m.heap EXCEPT
                              ![id] = [fresh EXCEPT !.offset = m.xas.offset],
                              ![p].count = u8_wrap(c)]
                  IN  IF u8_overflows(c) /\ m.checks
                      THEN Panic(Ret(m, 0), "overflow")
                      ELSE Ret([m EXCEPT !.heap = h], id)
             ELSE Ret([m EXCEPT !.heap[id] = fresh], id)

\* bitwise or of two keys
RECURSIVE BitOr(_, _)
BitOr(a, b) ==
    IF a = 0 THEN b ELSE IF b = 0 THEN a
    ELSE (IF a % 2 = 1 \/ b % 2 = 1 THEN 1 ELSE 0) + 2 * BitOr(a \div 2, b \div 2)

\* State::size, State::max
state_size(xas) == Shl(xas.sibs + 1, xas.shift)
state_max(xas) ==
    LET mask == state_size(xas) - 1
        ored == BitOr(xas.index, mask)
    IN  IF xas.shift > 0 \/ xas.sibs > 0
        THEN IF mask = ored THEN ored + 1 ELSE ored
        ELSE xas.index

\* State::expand for an empty head: the shift the root needs
RECURSIVE ExpandShift(_, _)
ExpandShift(max, shift) ==
    IF Shr(max, shift) >= CHUNK_SIZE THEN ExpandShift(max, shift + CHUNK_SHIFT)
    ELSE shift + CHUNK_SHIFT

\* State::expand, the growth loop: nd is the last node allocated (0: none)
RECURSIVE ExpandLoop(_, _, _, _, _)
ExpandLoop(m, max, head, shift, nd) ==
    IF ~Ok(m) THEN m
    ELSE IF max > entry_max_index(m, head)
    THEN The({
           IF ~Ok(a) THEN a
           ELSE IF a.ret = 0 THEN Ret(a, -1)
           ELSE LET id == a.ret
                    h1 == [a.heap EXCEPT
                             ![id].count = 1,
                             ![id].nr_value = IF is_value(head) THEN 1 ELSE @,
                             ![id].slots = set_entry(@, 0, head),
                             ![id].marks = [k \in XaMark |->
                                 IF is_marked(a.xa, k) THEN {0} ELSE {}]]
                    h2 == IF is_node(head)
                          THEN [h1 EXCEPT ![as_node(head)].offset = 0,
                                          ![as_node(head)].parent = node(id)]
                          ELSE h1
                IN  ExpandLoop([a EXCEPT !.heap = h2, !.xa.head = node(id)],
                               max, node(id), shift + CHUNK_SHIFT, id)
           : a \in {alloc(m, shift)} })
    ELSE IF nd = 0 THEN Panic(Ret(m, -1), "unwrap")
    ELSE Ret([m EXCEPT !.xas.node = Node(nd)], shift)

\* State::expand: ret is the shift, -1 for None
expand(m, head) ==
    LET max == state_max(m.xas) IN
    IF is_node(head)
    THEN ExpandLoop(m, max, head, m.heap[as_node(head)].shift + CHUNK_SHIFT,
                    as_node(head))
    ELSE IF is_value(head) THEN ExpandLoop(m, max, head, 0, 0)
    ELSE IF max = 0 THEN Ret(m, 0)
    ELSE Ret(m, ExpandShift(max, 0))

\* the slot a create is about to fill: the head, or a slot of a node
HeadSlot == [top |-> TRUE, n |-> 0, ofs |-> 0]
NodeSlot(n, ofs) == [top |-> FALSE, n |-> n, ofs |-> ofs]
WriteSlot(m, slot, e) ==
    IF slot.top THEN [m EXCEPT !.xa.head = e]
    ELSE [m EXCEPT !.heap[slot.n].slots = set_entry(@, slot.ofs, e)]

\* State::create, the descent loop
RECURSIVE CreateLoop(_, _, _, _, _)
CreateLoop(m, slot, entry, shift, order) ==
    IF ~Ok(m) \/ ~(shift > order) THEN Ret(m, entry)
    ELSE LET sh == shift - CHUNK_SHIFT IN
         IF is_node(entry)
         THEN The({ CreateLoop(d, NodeSlot(d.xas.node.n, d.xas.offset), d.ret,
                               sh, order)
                    : d \in {descend(m, as_node(entry))} })
         ELSE IF is_value(entry) THEN Ret(m, entry)
         ELSE The({
                IF ~Ok(a) THEN a
                ELSE IF a.ret = 0 THEN Ret(a, entry)
                ELSE The({ CreateLoop(d, NodeSlot(d.xas.node.n, d.xas.offset),
                                      d.ret, sh, order)
                           : d \in {descend(WriteSlot(a, slot, node(a.ret)), a.ret)} })
                : a \in {alloc(m, sh)} })

\* State::create
create(m, allow_root) ==
    IF is_some(m.xas.node)
    THEN CreateLoop(m, NodeSlot(m.xas.node.n, m.xas.offset),
                    node_entry(CurNode(m), m.xas.offset), CurNode(m).shift, m.xas.shift)
    ELSE The({
           IF ~Ok(e) THEN e
           ELSE IF e.ret = -1 THEN Ret(e, EMPTY)
           ELSE LET shift == IF e.ret = 0 /\ ~allow_root THEN CHUNK_SHIFT ELSE e.ret
                IN  CreateLoop(e, HeadSlot, e.xa.head, shift, m.xas.shift)
           : e \in {expand([m EXCEPT !.xas.node = Empty], m.xa.head)} })

\* --------------------------------------------------------- freeing, store

\* RawXArray::free_nodes: the depth-first walk from (n, offset) that frees
\* every node of the subtree under top.  w is the heap and the nodes freed so
\* far, in the order of their drops.  The steps over the slots of a node
\* that hold no node are taken at once.
RECURSIVE FreeNodesUp(_, _, _, _)
RECURSIVE FreeNodesLoop(_, _, _, _)
FreeNodesLoop(w, n, offset, top) ==
    LET e == node_entry(w.heap[n], offset) IN
    IF is_node(e) /\ w.heap[n].shift > 0
    THEN FreeNodesLoop(w, as_node(e), 0, top)
    ELSE LET stop == Min({o \in (offset + 1) .. CHUNK_SIZE :
                            \/ o = CHUNK_SIZE
                            \/ /\ w.heap[n].shift > 0
                               /\ is_node(node_entry(w.heap[n], o))})
         IN  FreeNodesUp(w, n, stop, top)

FreeNodesUp(w, n, offset, top) ==
    IF offset = CHUNK_SIZE
    THEN LET parent == w.heap[n].parent
             dropped == [heap |-> FreeNode(w.heap, n), freed |-> Append(w.freed, n)]
         IN  IF n = top THEN dropped
             ELSE FreeNodesUp(dropped, as_node(parent), w.heap[n].offset + 1, top)
    ELSE FreeNodesLoop(w, n, offset, top)

\* the walk from the first slot of n
FreeWalk(heap, n) == FreeNodesLoop([heap |-> heap, freed |-> <<>>], n, 0, n)

free_nodes(m, n) == [m EXCEPT !.heap = FreeWalk(m.heap, n).heap]

\* a shrink that leaves the promoted child its pointer to the freed root
RECURSIVE ShrinkLoop_parent_kept(_, _)
ShrinkLoop_parent_kept(m, n) ==
    IF m.heap[n].count # 1 THEN m
    ELSE LET raw_entry == node_entry(m.heap[n], 0) IN
         IF ~has_value(raw_entry) THEN m
         ELSE IF is_node(raw_entry) /\ m.heap[as_node(raw_entry)].shift # 0 THEN m
         ELSE LET m1 == [m EXCEPT !.xas.node = Bound,
                                  !.xa.head = raw_entry,
                                  !.heap = FreeNode(@, n)]
              IN  IF is_node(raw_entry)
                  THEN ShrinkLoop_parent_kept(
                         m1,
                         as_node(raw_entry))
                  ELSE m1

\* State::shrink, the loop at node n
RECURSIVE ShrinkLoop(_, _)
ShrinkLoop(m, n) ==
    IF m.heap[n].count # 1 THEN m
    ELSE LET raw_entry == node_entry(m.heap[n], 0) IN
         IF ~has_value(raw_entry) THEN m
         ELSE IF is_node(raw_entry) /\ m.heap[as_node(raw_entry)].shift # 0 THEN m
         ELSE LET m1 == [m EXCEPT !.xas.node = Bound,
                                  !.xa.head = raw_entry,
                                  !.heap = FreeNode(@, n)]
              IN  IF is_node(raw_entry)
                  THEN ShrinkLoop(
                         [m1 EXCEPT !.heap[as_node(raw_entry)].parent = EMPTY],
                         as_node(raw_entry))
                  ELSE m1

\* State::shrink
shrink(m) ==
    IF ~is_some(m.xas.node) THEN Panic(m, "unwrap")
    ELSE ShrinkLoop(m, m.xas.node.n)

\* a delete_node that leaves an emptied root at the head
RECURSIVE DeleteLoop_root_kept(_, _)
DeleteLoop_root_kept(m, n) ==
    IF m.heap[n].count = 0
    THEN LET offset == m.heap[n].offset
             parent == m.heap[n].parent
             m1 == [m EXCEPT !.heap = FreeNode(@, n), !.xas.offset = offset]
         IN  IF is_node(parent)
             THEN LET p == as_node(parent)
                      c == m.heap[p].count - 1
                  IN  IF u8_overflows(c) /\ m.checks THEN Panic(m1, "overflow")
                      ELSE DeleteLoop_root_kept(
                             [m1 EXCEPT !.heap[p].slots = set_entry(@, offset, EMPTY),
                                        !.heap[p].count = u8_wrap(c),
                                        !.xas.node = Node(p)], p)
             ELSE m
    ELSE IF is_null(m.heap[n].parent) THEN shrink(m)
    ELSE m

\* State::delete_node, the loop at node n
RECURSIVE DeleteLoop(_, _)
DeleteLoop(m, n) ==
    IF m.heap[n].count = 0
    THEN LET offset == m.heap[n].offset
             parent == m.heap[n].parent
             m1 == [m EXCEPT !.heap = FreeNode(@, n), !.xas.offset = offset]
         IN  IF is_node(parent)
             THEN LET p == as_node(parent)
                      c == m.heap[p].count - 1
                  IN  IF u8_overflows(c) /\ m.checks THEN Panic(m1, "overflow")
                      ELSE DeleteLoop(
                             [m1 EXCEPT !.heap[p].slots = set_entry(@, offset, EMPTY),
                                        !.heap[p].count = u8_wrap(c),
                                        !.xas.node = Node(p)], p)
             ELSE [m1 EXCEPT !.xa.head = EMPTY, !.xas.node = Bound]
    ELSE IF is_null(m.heap[n].parent) THEN shrink(m)
    ELSE m

\* a delete_node that frees the emptied node and stops there
delete_node_one_level(m) ==
    IF ~is_some(m.xas.node) THEN Panic(m, "unwrap")
    ELSE LET n == m.xas.node.n
             parent == m.heap[n].parent
         IN  IF m.heap[n].count # 0 THEN m
             ELSE IF is_node(parent)
             THEN [m EXCEPT !.heap = [FreeNode(@, n) EXCEPT
                                        ![as_node(parent)].slots =
                                            set_entry(@, m.heap[n].offset, EMPTY),
                                        ![as_node(parent)].count = u8_wrap(@ - 1)],
                            !.xas.node = Node(as_node(parent))]
             ELSE [m EXCEPT !.heap = FreeNode(@, n), !.xa.head = EMPTY,
                            !.xas.node = Bound]

\* a delete_node that leaves the offset of the search state as it was
delete_node_offset_kept(m) ==
    IF ~is_some(m.xas.node) THEN Panic(m, "unwrap")
    ELSE The({ [d EXCEPT !.xas.offset = m.xas.offset]
               : d \in {DeleteLoop(m, m.xas.node.n)} })

\* State::delete_node
delete_node(m) ==
    IF ~is_some(m.xas.node) THEN Panic(m, "unwrap")
    ELSE DeleteLoop(m, m.xas.node.n)

\* an update_node that leaves a node that became empty in the tree
update_node_undeleted(m, count, values) ==
    IF count = 0 /\ values = 0 THEN m
    ELSE IF ~is_some(m.xas.node) THEN m
    ELSE [m EXCEPT
            !.heap[m.xas.node.n].count = u8_wrap(@ + u8_wrap(count)),
            !.heap[m.xas.node.n].nr_value = u8_wrap(@ + u8_wrap(values))]

\* State::update_node, for the node the search state points to (if any)
update_node(m, count, values) ==
    IF count = 0 /\ values = 0 THEN m
    ELSE IF ~is_some(m.xas.node) THEN m
    ELSE LET n == m.xas.node.n
             m1 == [m EXCEPT
                      !.heap[n].count = u8_wrap(@ + u8_wrap(count)),
                      !.heap[n].nr_value = u8_wrap(@ + u8_wrap(values))]
         IN  IF count < 0 THEN delete_node(m1) ELSE m1

\* State::store, the loop over the slots of the range.  s holds the loop's
\* locals; ofs is the slot the next write goes to (-1: the head).
RECURSIVE StoreLoop(_, _)
StoreLoop(m, s) ==
    IF s.ofs # -1 /\ s.ofs > CHUNK_MASK
    THEN [m |-> Panic(m, "index"), count |-> 0, values |-> 0, first |-> s.first]
    ELSE The({
      LET ofs1 == IF s.ofs = -1 THEN -1 ELSE s.ofs + 1
          next_has_value == has_value(s.next)
          count == s.count + Bit(~next_has_value) - Bit(~has_value(s.entry))
          values == s.values + Bit(~is_value(s.first)) - Bit(~s.is_value)
          done == [m |-> m2, count |-> count, values |-> values, first |-> s.first]
          entry1 == IF has_value(s.entry) /\ ~is_sibling(s.entry)
                    THEN sibling(m2.xas.offset) ELSE s.entry
          offset1 == s.offset + 1
      IN  IF ~is_some(m2.xas.node)
          THEN [done EXCEPT !.count = s.count, !.values = s.values]
          ELSE IF has_value(s.entry) /\ s.offset = s.max THEN done
          ELSE IF ~has_value(s.entry) /\ s.offset = CHUNK_MASK THEN done
          ELSE LET next1 == node_entry(CurNode(m2), offset1) IN
               IF ~is_sibling(next1) /\ ~has_value(entry1) /\ offset1 > s.max
               THEN done
               ELSE StoreLoop(m2,
                      [s EXCEPT !.entry = entry1, !.next = next1,
                                !.first = IF is_sibling(next1) THEN @ ELSE next1,
                                !.offset = offset1, !.ofs = ofs1,
                                !.count = count, !.values = values])
      : m2 \in {LET m1 == IF s.ofs = -1 THEN [m EXCEPT !.xa.head = s.entry]
                          ELSE [m EXCEPT !.heap[s.slot_node].slots =
                                             set_entry(@, s.ofs, s.entry)]
                IN  IF is_node(s.next)
                       /\ (~is_some(m1.xas.node) \/ CurNode(m1).shift # 0)
                    THEN free_nodes(m1, as_node(s.next))
                    ELSE m1} })

\* State::store: ret is the previous entry
store(m, entry) ==
    The({
      IF ~Ok(c) THEN c
      ELSE IF c.xas.node = Bound \/ c.xas.node = Restart THEN Ret(c, c.ret)
      ELSE The({
        IF c.ret = entry /\ c1.xas.sibs = 0 THEN Ret(c1, c.ret)
        ELSE IF is_some(c1.xas.node) /\ c1.xas.sibs # 0 THEN Panic(c1, "todo")
        ELSE The({
          IF ~Ok(r.m) THEN r.m
          ELSE Ret(update_node(r.m, r.count, r.values), r.first)
          : r \in {StoreLoop(c1,
                     [entry |-> entry, next |-> c.ret, first |-> c.ret,
                      is_value |-> has_value(entry) /\ is_value(entry),
                      offset |-> c1.xas.offset,
                      max |-> c1.xas.offset + c1.xas.sibs,
                      slot_node |-> c1.xas.node.n,
                      ofs |-> IF is_some(c1.xas.node) THEN c1.xas.offset ELSE -1,
                      count |-> 0, values |-> 0])} })
        : c1 \in {IF is_some(c.xas.node) /\ c.xas.shift < CurNode(c).shift
                  THEN [c EXCEPT !.xas.sibs = 0] ELSE c} })
      : c \in {IF has_value(entry) THEN create(m, ~is_node(entry)) ELSE load(m)} })

\* -------------------------------------------------------------- iteration
\* An Option<RawEntry> is an entry or NoEntry

NoEntry == -1

\* An arithmetic overflow on a key panics in a build with overflow checks
\* and wraps in a build without them
Overflow(m, wrappedTo) ==
    IF m.checks THEN Panic(m, "overflow") ELSE [wrappedTo EXCEPT !.wrapped = TRUE]

\* a move_index that keeps the low bits of the index
move_index_unmasked(m, offset) ==
    IF ~is_some(m.xas.node) THEN Panic(m, "unwrap")
    ELSE [m EXCEPT !.xas.index =
             (m.xas.index + Shl(offset, CurNode(m).shift)) % IndexMod]

\* State::move_index
move_index(m, offset) ==
    IF ~is_some(m.xas.node) THEN Panic(m, "unwrap")
    ELSE LET span == CurNode(m).shift + CHUNK_SHIFT
             masked == (m.xas.index \div (2 ^ span)) * (2 ^ span)
         IN  [m EXCEPT !.xas.index =
                 (masked + Shl(offset, CurNode(m).shift)) % IndexMod]

\* State::find, the scan.  The steps over a run of empty slots of one node
\* (offset += 1 and move_index while the entry is empty, the offset is in
\* the node and the moved index is below end) are taken at once.
RECURSIVE FindLoop(_, _)
FindLoop(m, end) ==
    IF ~Ok(m) THEN m
    ELSE IF is_some(m.xas.node) /\ m.xas.index < end
    THEN LET nd == CurNode(m) IN
         IF m.xas.offset = CHUNK_SIZE
         THEN FindLoop([m EXCEPT !.xas.offset = nd.offset + 1,
                                 !.xas.node = IF is_node(nd.parent)
                                              THEN Node(as_node(nd.parent))
                                              ELSE Empty], end)
         ELSE IF m.xas.offset \notin Offsets THEN Panic(m, "index")
         ELSE LET e == node_entry(nd, m.xas.offset) IN
              IF is_node(e)
              THEN FindLoop([m EXCEPT !.xas.node = Node(as_node(e)),
                                      !.xas.offset = 0], end)
              ELSE IF is_value(e) /\ ~is_sibling(e) THEN Ret(m, e)
              ELSE LET at(o) == move_index([m EXCEPT !.xas.offset = o], o)
                       stop == Min({o \in (m.xas.offset + 1) .. CHUNK_SIZE :
                                      \/ o = CHUNK_SIZE
                                      \/ node_entry(nd, o) # EMPTY
                                      \/ at(o).xas.index >= end})
                   IN  FindLoop(at(stop), end)
    ELSE IF m.xas.node = Empty THEN Ret([m EXCEPT !.xas.node = Bound], NoEntry)
    ELSE Ret(m, NoEntry)

\* a step to the next offset that leaves the index where it was
FindAdvance_index_kept(m, end) ==
    FindLoop([m EXCEPT !.xas.offset = @ + 1], end)

\* State::find, from the step to the next offset on
FindAdvance(m, end) ==
    FindLoop(move_index([m EXCEPT !.xas.offset = @ + 1], m.xas.offset + 1), end)

\* State::find
find(m, end) ==
    IF m.xas.node = Bound THEN Ret(m, NoEntry)
    ELSE IF m.xas.index > end THEN Ret([m EXCEPT !.xas.node = Bound], NoEntry)
    ELSE IF m.xas.node = Empty
    THEN Ret([m EXCEPT !.xas.index = 1, !.xas.node = Bound], NoEntry)
    ELSE IF m.xas.node = Restart
    THEN The({ IF ~Ok(l) THEN l
               ELSE IF is_value(l.ret) THEN l
               ELSE IF ~is_node(l.ret) THEN Ret(l, NoEntry)
               ELSE FindAdvance(l, end)
               : l \in {load(m)} })
    ELSE LET nd == CurNode(m) IN
         IF nd.shift = 0 /\ nd.offset # m.xas.index % CHUNK_SIZE
         THEN LET back == [m EXCEPT !.xas.offset =
                             (((m.xas.index - 1) % IndexMod) % CHUNK_SIZE) + 1]
              IN  IF m.xas.index = 0
                  THEN LET o == Overflow(m, back) IN
                       IF Ok(o) THEN FindAdvance(o, end) ELSE o
                  ELSE FindAdvance(back, end)
         ELSE FindAdvance(m, end)

\* a walk along the leaf that ends at the end of the leaf
GetNextLoop_in_leaf(m, end) ==
    LET nd == CurNode(m)
        skip == Min({j \in 0 .. (CHUNK_MASK - m.xas.offset) :
                       \/ m.xas.index + j >= end
                       \/ m.xas.offset + j = CHUNK_MASK
                       \/ node_entry(nd, m.xas.offset + j + 1) # EMPTY})
        m0 == [m EXCEPT !.xas.index = @ + skip, !.xas.offset = @ + skip]
    IN  IF m0.xas.index >= end \/ m0.xas.offset = CHUNK_MASK THEN Ret(m0, NoEntry)
        ELSE LET e == node_entry(nd, m0.xas.offset + 1) IN
             IF is_internal(e) THEN Ret(m0, NoEntry)
             ELSE Ret([m0 EXCEPT !.xas.index = @ + 1, !.xas.offset = @ + 1], e)

\* State::get_next, the walk along the leaf the state is in.  The steps
\* over a run of empty slots (index += 1, offset += 1 while the next entry is
\* empty, the index is below end and the offset is not the last) are taken
\* at once.
GetNextLoop(m, end) ==
    LET nd == CurNode(m)
        skip == Min({j \in 0 .. (CHUNK_MASK - m.xas.offset) :
                       \/ m.xas.index + j >= end
                       \/ m.xas.offset + j = CHUNK_MASK
                       \/ node_entry(nd, m.xas.offset + j + 1) # EMPTY})
        m0 == [m EXCEPT !.xas.index = @ + skip, !.xas.offset = @ + skip]
    IN  IF m0.xas.index >= end \/ m0.xas.offset = CHUNK_MASK THEN find(m0, end)
        ELSE LET e == node_entry(nd, m0.xas.offset + 1) IN
             IF is_internal(e) THEN find(m0, end)
             ELSE Ret([m0 EXCEPT !.xas.index = @ + 1, !.xas.offset = @ + 1], e)

\* State::get_next
get_next(m, end) ==
    IF m.xas.offset # m.xas.index % CHUNK_SIZE THEN find(m, end)
    ELSE IF ~is_some(m.xas.node) THEN find(m, end)
    ELSE IF CurNode(m).shift > 0 THEN find(m, end)
    ELSE GetNextLoop(m, end)

\* Node::find_mark.  A mark bitmap is the set of the offsets whose bit is
\* set; the code scans the bitmap word by word (USIZE_BITS = 64 bits, so one
\* word) and counts the trailing zeros of the first non-zero word by halving.
RECURSIVE TrailingZeros(_, _, _)
TrailingZeros(bits, width, n) ==
    IF width = 0 THEN n
    ELSE IF bits \cap (0 .. width - 1) = {}
    THEN TrailingZeros(IF width = 1 THEN bits ELSE {b - width : b \in bits},
                       width \div 2, n + width)
    ELSE TrailingZeros(bits, width \div 2, n)

\* a find_mark that does not mask the bits below start
find_mark_unmasked(nd, start, mark) ==
    IF start \div CHUNK_SIZE # 0 THEN CHUNK_SIZE
    ELSE LET word == nd.marks[mark] IN
         IF word # {} THEN TrailingZeros(word, CHUNK_SIZE \div 2, 0)
         ELSE CHUNK_SIZE

find_mark(nd, start, mark) ==
    IF start \div CHUNK_SIZE # 0 THEN CHUNK_SIZE
    ELSE LET word == {b \in nd.marks[mark] : b >= start % CHUNK_SIZE} IN
         IF word # {} THEN TrailingZeros(word, CHUNK_SIZE \div 2, 0)
         ELSE CHUNK_SIZE

\* State::find_marked, the scan, and its last step: the entry at the offset
RECURSIVE FindMarkedLoop(_, _, _, _)
RECURSIVE FindMarkedEntry(_, _, _, _)
FindMarkedEntry(m, end, mark, advance) ==
    LET e == node_entry(CurNode(m), m.xas.offset) IN
    IF is_node(e)
    THEN FindMarkedLoop(
           [m EXCEPT !.xas.offset = get_offset(m.heap[as_node(e)], m.xas.index),
                     !.xas.node = Node(as_node(e))], end, mark, advance)
    ELSE Ret(m, e)

FindMarkedLoop(m, end, mark, advance) ==
    IF ~Ok(m) THEN m
    ELSE IF m.xas.index <= end
    THEN IF ~is_some(m.xas.node) THEN Panic(m, "unwrap")
         ELSE LET nd == CurNode(m) IN
         IF m.xas.offset = CHUNK_SIZE
         THEN IF is_node(nd.parent)
              THEN FindMarkedLoop([m EXCEPT !.xas.offset = nd.offset + 1,
                                            !.xas.node = Node(as_node(nd.parent))],
                                  end, mark, FALSE)
              ELSE Ret([m EXCEPT !.xas.offset = nd.offset + 1,
                                 !.xas.node = Bound], NoEntry)
         ELSE IF m.xas.offset \notin Offsets THEN Panic(m, "index")
         ELSE LET sib == ~advance /\ is_sibling(node_entry(nd, m.xas.offset))
                  m1 == IF sib
                        THEN move_index(
                               [m EXCEPT !.xas.offset =
                                   as_sibling(node_entry(nd, m.xas.offset))],
                               as_sibling(node_entry(nd, m.xas.offset)))
                        ELSE m
                  offset == find_mark(nd, m1.xas.offset + Bit(advance), mark)
              IN  IF offset > m1.xas.offset
                  THEN LET m2 == move_index(m1, offset) IN
                       IF m2.xas.index > end
                       THEN Ret([m2 EXCEPT !.xas.node = Restart], NoEntry)
                       ELSE IF offset = CHUNK_SIZE
                       THEN FindMarkedLoop([m2 EXCEPT !.xas.offset = offset],
                                           end, mark, FALSE)
                       ELSE FindMarkedEntry([m2 EXCEPT !.xas.offset = offset],
                                            end, mark, FALSE)
                  ELSE FindMarkedEntry(m1, end, mark, advance)
    ELSE Ret([m EXCEPT !.xas.node = Restart], NoEntry)

\* State::find_marked
find_marked(m, end, mark) ==
    IF m.xas.index > end THEN Ret([m EXCEPT !.xas.node = Restart], NoEntry)
    ELSE IF m.xas.node = Empty
    THEN Ret([m EXCEPT !.xas.index = 1, !.xas.node = Bound], NoEntry)
    ELSE IF is_some(m.xas.node) THEN FindMarkedLoop(m, end, mark, TRUE)
    ELSE LET head == m.xa.head
             top(mm) ==
               IF mm.xas.index >
                    (IF is_node(head) THEN node_max_index(mm.heap[as_node(head)]) ELSE 0)
               THEN Ret([mm EXCEPT !.xas.node = Bound], NoEntry)
               ELSE IF is_node(head)
               THEN LET o == Shr(mm.xas.index, mm.heap[as_node(head)].shift) IN
                    IF u8_overflows(o) THEN Panic(mm, "unwrap")
                    ELSE FindMarkedLoop(
                           [mm EXCEPT !.xas.offset = o,
                                      !.xas.node = Node(as_node(head))],
                           end, mark, FALSE)
               ELSE IF is_marked(mm.xa, mark) THEN Ret(mm, head)
               ELSE Ret([mm EXCEPT !.xas.index = 1, !.xas.node = Bound], NoEntry)
             m0 == [m EXCEPT !.xas.node = Empty]
         IN  IF is_node(head) /\ node_max_index_overflows(m.heap[as_node(head)])
             THEN LET o == Overflow(m0, m0) IN IF Ok(o) THEN top(o) ELSE o
             ELSE top(m0)

\* State::get_next_marked
get_next_marked(m, mark, end) ==
    IF ~is_some(m.xas.node) THEN find_marked(m, end, mark)
    ELSE IF CurNode(m).shift > 0 THEN find_marked(m, end, mark)
    ELSE LET offset == find_mark(CurNode(m), m.xas.offset + 1, mark)
             base == (m.xas.index \div CHUNK_SIZE) * CHUNK_SIZE
             m1 == [m EXCEPT !.xas.offset = offset,
                             !.xas.index = (base + offset) % IndexMod]
             rest(mm) ==
               IF mm.xas.index > end THEN Ret(mm, NoEntry)
               ELSE IF offset = CHUNK_SIZE THEN find_marked(mm, end, mark)
               ELSE LET e == node_entry(CurNode(mm), offset) IN
                    IF is_null(e) THEN find_marked(mm, end, mark) ELSE Ret(mm, e)
         IN  IF base + offset >= IndexMod
             THEN LET o == Overflow([m EXCEPT !.xas.offset = offset], m1) IN
                  IF Ok(o) THEN rest(o) ELSE o
             ELSE rest(m1)

\* Range.mark: a mark, or NoMark for None
NoMark == -1

\* Range::next, RangeMut::next: out is None or Some(<<key, value>>)
range_next(m, end, mark) ==
    IF m.xas.index > end THEN [m |-> m, out |-> <<>>]
    ELSE The({ IF ~Ok(r) THEN [m |-> r, out |-> <<>>]
               ELSE IF r.ret = NoEntry THEN [m |-> r, out |-> <<>>]
               ELSE IF ~is_value(r.ret) THEN [m |-> Panic(r, "unwrap"), out |-> <<>>]
               ELSE [m |-> r, out |-> <<<<r.xas.index, as_value(r.ret)>>>>]
               : r \in {IF mark # NoMark THEN get_next_marked(m, mark, end)
                        ELSE get_next(m, end)} })

\* ------------------------------------------------ next(), loop by loop
\* The same code with every turn of a loop as a step of its own.  A call
\* under way is the machine, the loop it is in (pc: "leaf" for the loop of
\* get_next, "find" for the scan of find, "marked" for the scan of
\* find_marked, "" once it has returned) and find_marked's local advance.

Done(m) == [m |-> m, pc |-> "", advance |-> FALSE]
At(m, pc, advance) ==
    IF Ok(m) THEN [m |-> m, pc |-> pc, advance |-> advance] ELSE Done(m)

\* State::find, the step to the next offset that leads into the scan
find_advance(m) ==
    At(move_index([m EXCEPT !.xas.offset = @ + 1], m.xas.offset + 1), "find", FALSE)

\* State::find, up to its scan
find_enter(m, end) ==
    IF m.xas.node = Bound THEN Done(Ret(m, NoEntry))
    ELSE IF m.xas.index > end THEN Done(Ret([m EXCEPT !.xas.node = Bound], NoEntry))
    ELSE IF m.xas.node = Empty
    THEN Done(Ret([m EXCEPT !.xas.index = 1, !.xas.node = Bound], NoEntry))
    ELSE IF m.xas.node = Restart
    THEN The({ IF ~Ok(l) THEN Done(l)
               ELSE IF is_value(l.ret) THEN Done(l)
               ELSE IF ~is_node(l.ret) THEN Done(Ret(l, NoEntry))
               ELSE find_advance(l)
               : l \in {load(m)} })
    ELSE LET nd == CurNode(m) IN
         IF nd.shift = 0 /\ nd.offset # m.xas.index % CHUNK_SIZE
         THEN LET back == [m EXCEPT !.xas.offset =
                             (((m.xas.index - 1) % IndexMod) % CHUNK_SIZE) + 1]
              IN  IF m.xas.index = 0
                  THEN LET o == Overflow(m, back) IN
                       IF Ok(o) THEN find_advance(o) ELSE Done(o)
                  ELSE find_advance(back)
         ELSE find_advance(m)

\* a turn of the scan that stays on an empty slot
FindStep_slot_kept(m, end) ==
    IF is_some(m.xas.node) /\ m.xas.index < end
    THEN LET nd == CurNode(m) IN
         IF m.xas.offset = CHUNK_SIZE
         THEN At([m EXCEPT !.xas.offset = nd.offset + 1,
                           !.xas.node = IF is_node(nd.parent)
                                        THEN Node(as_node(nd.parent))
                                        ELSE Empty], "find", FALSE)
         ELSE IF m.xas.offset \notin Offsets THEN Done(Panic(m, "index"))
         ELSE LET e == node_entry(nd, m.xas.offset) IN
              IF is_node(e)
              THEN At([m EXCEPT !.xas.node = Node(as_node(e)),
                                !.xas.offset = 0], "find", FALSE)
              ELSE IF is_value(e) /\ ~is_sibling(e) THEN Done(Ret(m, e))
              ELSE At(m, "find", FALSE)
    ELSE IF m.xas.node = Empty THEN Done(Ret([m EXCEPT !.xas.node = Bound], NoEntry))
    ELSE Done(Ret(m, NoEntry))

\* State::find, one turn of the scan
FindStep(m, end) ==
    IF is_some(m.xas.node) /\ m.xas.index < end
    THEN LET nd == CurNode(m) IN
         IF m.xas.offset = CHUNK_SIZE
         THEN At([m EXCEPT !.xas.offset = nd.offset + 1,
                           !.xas.node = IF is_node(nd.parent)
                                        THEN Node(as_node(nd.parent))
                                        ELSE Empty], "find", FALSE)
         ELSE IF m.xas.offset \notin Offsets THEN Done(Panic(m, "index"))
         ELSE LET e == node_entry(nd, m.xas.offset) IN
              IF is_node(e)
              THEN At([m EXCEPT !.xas.node = Node(as_node(e)),
                                !.xas.offset = 0], "find", FALSE)
              ELSE IF is_value(e) /\ ~is_sibling(e) THEN Done(Ret(m, e))
              ELSE find_advance(m)
    ELSE IF m.xas.node = Empty THEN Done(Ret([m EXCEPT !.xas.node = Bound], NoEntry))
    ELSE Done(Ret(m, NoEntry))

\* State::get_next, up to its walk along the leaf
get_next_enter(m, end) ==
    IF m.xas.offset # m.xas.index % CHUNK_SIZE THEN find_enter(m, end)
    ELSE IF ~is_some(m.xas.node) THEN find_enter(m, end)
    ELSE IF CurNode(m).shift > 0 THEN find_enter(m, end)
    ELSE At(m, "leaf", FALSE)

\* State::get_next, one turn of the walk along the leaf
LeafStep(m, end) ==
    IF m.xas.index >= end \/ m.xas.offset = CHUNK_MASK THEN find_enter(m, end)
    ELSE LET e == node_entry(CurNode(m), m.xas.offset + 1) IN
         IF is_internal(e) THEN find_enter(m, end)
         ELSE LET m1 == [m EXCEPT !.xas.index = @ + 1, !.xas.offset = @ + 1] IN
              IF ~is_null(e) THEN Done(Ret(m1, e)) ELSE At(m1, "leaf", FALSE)

\* State::find_marked, up to its scan
find_marked_enter(m, end, mark) ==
    IF m.xas.index > end THEN Done(Ret([m EXCEPT !.xas.node = Restart], NoEntry))
    ELSE IF m.xas.node = Empty
    THEN Done(Ret([m EXCEPT !.xas.index = 1, !.xas.node = Bound], NoEntry))
    ELSE IF is_some(m.xas.node) THEN At(m, "marked", TRUE)
    ELSE LET head == m.xa.head
             top(mm) ==
               IF mm.xas.index >
                    (IF is_node(head) THEN node_max_index(mm.heap[as_node(head)]) ELSE 0)
               THEN Done(Ret([mm EXCEPT !.xas.node = Bound], NoEntry))
               ELSE IF is_node(head)
               THEN LET o == Shr(mm.xas.index, mm.heap[as_node(head)].shift) IN
                    IF u8_overflows(o) THEN Done(Panic(mm, "unwrap"))
                    ELSE At([mm EXCEPT !.xas.offset = o,
                                       !.xas.node = Node(as_node(head))],
                            "marked", FALSE)
               ELSE IF is_marked(mm.xa, mark) THEN Done(Ret(mm, head))
               ELSE Done(Ret([mm EXCEPT !.xas.index = 1, !.xas.node = Bound], NoEntry))
             m0 == [m EXCEPT !.xas.node = Empty]
         IN  IF is_node(head) /\ node_max_index_overflows(m.heap[as_node(head)])
             THEN LET o == Overflow(m0, m0) IN IF Ok(o) THEN top(o) ELSE Done(o)
             ELSE top(m0)

\* State::find_marked, the end of a turn: the entry at the offset
FindMarkedStepEntry(m, advance) ==
    LET e == node_entry(CurNode(m), m.xas.offset) IN
    IF is_node(e)
    THEN At([m EXCEPT !.xas.offset = get_offset(m.heap[as_node(e)], m.xas.index),
                      !.xas.node = Node(as_node(e))], "marked", advance)
    ELSE Done(Ret(m, e))

\* State::find_marked, one turn of the scan
FindMarkedStep(m, end, mark, advance) ==
    IF m.xas.index <= end
    THEN IF ~is_some(m.xas.node) THEN Done(Panic(m, "unwrap"))
         ELSE LET nd == CurNode(m) IN
         IF m.xas.offset = CHUNK_SIZE
         THEN IF is_node(nd.parent)
              THEN At([m EXCEPT !.xas.offset = nd.offset + 1,
                                !.xas.node = Node(as_node(nd.parent))],
                      "marked", FALSE)
              ELSE Done(Ret([m EXCEPT !.xas.offset = nd.offset + 1,
                                      !.xas.node = Bound], NoEntry))
         ELSE IF m.xas.offset \notin Offsets THEN Done(Panic(m, "index"))
         ELSE LET sib == ~advance /\ is_sibling(node_entry(nd, m.xas.offset))
                  m1 == IF sib
                        THEN move_index(
                               [m EXCEPT !.xas.offset =
                                   as_sibling(node_entry(nd, m.xas.offset))],
                               as_sibling(node_entry(nd, m.xas.offset)))
                        ELSE m
                  offset == find_mark(nd, m1.xas.offset + Bit(advance), mark)
              IN  IF offset > m1.xas.offset
                  THEN LET m2 == move_index(m1, offset) IN
                       IF m2.xas.index > end
                       THEN Done(Ret([m2 EXCEPT !.xas.node = Restart], NoEntry))
                       ELSE IF offset = CHUNK_SIZE
                       THEN At([m2 EXCEPT !.xas.offset = offset], "marked", FALSE)
                       ELSE FindMarkedStepEntry([m2 EXCEPT !.xas.offset = offset], FALSE)
                  ELSE FindMarkedStepEntry(m1, advance)
    ELSE Done(Ret([m EXCEPT !.xas.node = Restart], NoEntry))

\* State::get_next_marked, up to the scan of find_marked
get_next_marked_enter(m, mark, end) ==
    IF ~is_some(m.xas.node) THEN find_marked_enter(m, end, mark)
    ELSE IF CurNode(m).shift > 0 THEN find_marked_enter(m, end, mark)
    ELSE LET offset == find_mark(CurNode(m), m.xas.offset + 1, mark)
             base == (m.xas.index \div CHUNK_SIZE) * CHUNK_SIZE
             m1 == [m EXCEPT !.xas.offset = offset,
                             !.xas.index = (base + offset) % IndexMod]
             rest(mm) ==
               IF mm.xas.index > end THEN Done(Ret(mm, NoEntry))
               ELSE IF offset = CHUNK_SIZE THEN find_marked_enter(mm, end, mark)
               ELSE LET e == node_entry(CurNode(mm), offset) IN
                    IF is_null(e) THEN find_marked_enter(mm, end, mark)
                    ELSE Done(Ret(mm, e))
         IN  IF base + offset >= IndexMod
             THEN LET o == Overflow([m EXCEPT !.xas.offset = offset], m1) IN
                  IF Ok(o) THEN rest(o) ELSE Done(o)
             ELSE rest(m1)

\* Range::next, RangeMut::next: what the call returns once the search has
\* returned
range_next_return(r) ==
    IF r.pc # "" \/ ~Ok(r.m) THEN r
    ELSE IF r.m.ret = NoEntry THEN r
    ELSE IF ~is_value(r.m.ret) THEN Done(Panic(r.m, "unwrap"))
    ELSE r

\* Range::next, RangeMut::next, up to the first loop
range_next_enter(m, end, mark) ==
    IF m.xas.index > end THEN Done(Ret(m, NoEntry))
    ELSE range_next_return(IF mark # NoMark THEN get_next_marked_enter(m, mark, end)
                           ELSE get_next_enter(m, end))

\* one turn of the loop the call is in
range_next_step(m, end, mark, pc, advance) ==
    range_next_return(IF pc = "leaf" THEN LeafStep(m, end)
                      ELSE IF pc = "find" THEN FindStep(m, end)
                      ELSE FindMarkedStep(m, end, mark, advance))

\* ------------------------------------------------------- cursor operations
\* An Option<&T> is None or Some(v)

None == <<>>
Some(v) == <<v>>
OptValue(e) == IF is_value(e) THEN Some(as_value(e)) ELSE None

\* Cursor::current, CursorMut::current
cursor_current(m) ==
    The({ [m |-> l, out |-> OptValue(l.ret)] : l \in {load(m)} })

\* an insert that overwrites the value the key holds
cursor_insert_replacing(m, v) ==
    The({ [m |-> store(l, value(v)), out |-> OptValue(l.ret)] : l \in {load(m)} })

\* CursorMut::insert
cursor_insert(m, v) ==
    The({ IF is_value(l.ret) THEN [m |-> l, out |-> Some(as_value(l.ret))]
          ELSE [m |-> store(l, value(v)), out |-> None]
          : l \in {load(m)} })

\* a current_or_insert that computes and stores the value whatever the key
\* holds
cursor_current_or_insert_always(m, v) ==
    The({ [m |-> store(l, value(v)), out |-> <<~is_value(l.ret), v>>, calls |-> 1]
          : l \in {load(m)} })

\* CursorMut::current_or_insert with a closure f that returns the value v:
\* out is the pair (created, reference), calls the number of calls of f
cursor_current_or_insert(m, v) ==
    The({ IF is_value(l.ret)
          THEN [m |-> l, out |-> <<FALSE, as_value(l.ret)>>, calls |-> 0]
          ELSE [m |-> store(l, value(v)), out |-> <<TRUE, v>>, calls |-> 1]
          : l \in {load(m)} })

\* a remove that returns the value and leaves it in the tree
cursor_remove_unstored(m) ==
    The({ [m |-> l, out |-> OptValue(l.ret)] : l \in {load(m)} })

\* CursorMut::remove
cursor_remove(m) ==
    The({ IF is_value(l.ret)
          THEN [m |-> store(l, EMPTY), out |-> Some(as_value(l.ret))]
          ELSE [m |-> l, out |-> None]
          : l \in {load(m)} })

\* where a search state is: the kind of its node and the node's shift
StateAt(m) ==
    [kind |-> m.xas.node.kind,
     shift |-> IF is_some(m.xas.node) THEN CurNode(m).shift ELSE 0]

\* The replacement idiom: remove, then insert(v), through one mutable cursor
\* (its search state is what the remove left) or through a second cursor
\* made for the same key.  at is the search state between the two calls.
cursor_replace(m, v, same) ==
    The({ IF ~Ok(rem.m) THEN [m |-> rem.m, out |-> None, at |-> StateAt(rem.m)]
          ELSE The({ [m |-> ins.m, out |-> ins.out, at |-> StateAt(rem.m)]
                     : ins \in {cursor_insert(
                                  IF same THEN rem.m
                                  ELSE [rem.m EXCEPT !.xas = NewState(m.xas.index)],
                                  v)} })
          : rem \in {cursor_remove(m)} })

\* Cursor::next_allocated, CursorMut::next_allocated: what get_next returns
\* is dropped
cursor_next_allocated(m) == Ret(get_next(m, U64_MAX), EMPTY)

\* Cursor::key, CursorMut::key
cursor_key(m) == m.xas.index

\* next_allocated(), then key() and current() on the cursor: out is the key
\* and the Option current() returned
cursor_step(m) ==
    The({ IF ~Ok(n) THEN [m |-> n, out |-> <<>>]
          ELSE The({ [m |-> cur.m, out |-> <<cursor_key(n), cur.out>>]
                     : cur \in {cursor_current(n)} })
          : n \in {cursor_next_allocated(m)} })

\* State::next, the climb while the offset is past the node: Bound when the
\* root is left
RECURSIVE NextUp(_)
NextUp(m) ==
    IF m.xas.offset # CHUNK_SIZE THEN m
    ELSE LET nd == CurNode(m) IN
         IF is_node(nd.parent)
         THEN NextUp([m EXCEPT !.xas.offset = nd.offset + 1,
                               !.xas.node = Node(as_node(nd.parent))])
         ELSE [m EXCEPT !.xas.offset = nd.offset + 1, !.xas.node = Bound]

\* State::next, the descent to the slot of the index
RECURSIVE NextDown(_)
NextDown(m) ==
    IF m.xas.offset \notin Offsets THEN Panic(m, "index")
    ELSE LET e == node_entry(CurNode(m), m.xas.offset) IN
         IF is_node(e)
         THEN NextDown([m EXCEPT
                          !.xas.offset = get_offset(m.heap[as_node(e)], m.xas.index),
                          !.xas.node = Node(as_node(e))])
         ELSE m

\* index += 1 on a key
index_inc(m) ==
    IF m.xas.index = U64_MAX THEN Overflow(m, [m EXCEPT !.xas.index = 0])
    ELSE [m EXCEPT !.xas.index = @ + 1]

\* State::next
next(m) ==
    The({ IF ~Ok(i) THEN i
          ELSE IF i.xas.node = Empty THEN [i EXCEPT !.xas.node = Bound]
          ELSE IF ~is_some(i.xas.node) THEN i
          ELSE The({ IF is_some(u.xas.node) THEN NextDown(u) ELSE u
                     : u \in {NextUp(IF i.xas.offset # get_offset(CurNode(i), i.xas.index)
                                     THEN [i EXCEPT !.xas.offset = @ + 1] ELSE i)} })
          : i \in {IF m.xas.node # Restart THEN index_inc(m) ELSE m} })

\* CursorMut::next
cursor_next(m) ==
    IF is_some(m.xas.node) /\ CurNode(m).shift = 0 /\ m.xas.offset # CHUNK_MASK
    THEN The({ IF ~Ok(i) THEN i ELSE [i EXCEPT !.xas.offset = @ + 1]
               : i \in {index_inc(m)} })
    ELSE next(m)

\* next(), then key() and current() on the cursor: out is the key before the
\* call, the key after it and the Option current() returned
cursor_next_step(m) ==
    The({ IF ~Ok(n) THEN [m |-> n, out |-> <<>>]
          ELSE The({ [m |-> cur.m, out |-> <<cursor_key(m), cursor_key(n), cur.out>>]
                     : cur \in {cursor_current(n)} })
          : n \in {cursor_next(m)} })

\* CursorMut::mark
cursor_mark(m, mark) ==
    The({ [m |-> IF is_value(l.ret) THEN set_mark(l, mark) ELSE l, out |-> None]
          : l \in {load(m)} })

\* CursorMut::unmark
cursor_unmark(m, mark) ==
    The({ [m |-> IF is_value(l.ret) THEN unset_mark(l, mark) ELSE l, out |-> None]
          : l \in {load(m)} })

\* RangeMut::next, then as_cursor_mut().unmark(mark) when it yielded a pair:
\* one turn of a loop that unmarks what it visits
range_next_unmark(m, end, mark) ==
    The({ IF ~Ok(r.m) \/ r.out = <<>> THEN r
          ELSE [m |-> cursor_unmark(r.m, mark).m, out |-> r.out]
          : r \in {range_next(m, end, mark)} })

\* a loop over iter().filter_mark(mark) that collects what next() yields:
\* acc is the pairs yielded so far, and the loop is left after MaxCalls pairs
RECURSIVE MarkedLoop(_, _, _)
MarkedLoop(m, mark, acc) ==
    IF Len(acc) >= MaxCalls THEN [m |-> m, out |-> acc]
    ELSE The({ IF ~Ok(r.m) \/ r.out = <<>> THEN [m |-> r.m, out |-> acc]
               ELSE MarkedLoop(r.m, mark, acc \o r.out)
               : r \in {range_next(m, U64_MAX, mark)} })

\* the pairs iter().filter_mark(mark) yields
marked_pairs(m, mark) ==
    MarkedLoop([m EXCEPT !.xas = NewState(0), !.ret = EMPTY], mark, <<>>)

\* an operation of a cursor between two loops over iter().filter_mark(mark):
\* b is the loop before, o the operation on the tree b left; before and after
\* are what the loops collect
reported(b, o, mark) ==
    IF ~Ok(b.m) THEN [m |-> b.m, out |-> None, before |-> b.out, after |-> <<>>]
    ELSE IF ~Ok(o.m) THEN [m |-> o.m, out |-> o.out, before |-> b.out, after |-> <<>>]
    ELSE The({ [m |-> a.m, out |-> o.out, before |-> b.out, after |-> a.out]
               : a \in {marked_pairs(o.m, mark)} })

\* cursor_mut(k) on the tree a loop left
cursor_after(b, k) == [b.m EXCEPT !.xas = NewState(k), !.ret = EMPTY]

\* insert(k, v) between two loops over iter().filter_mark(mark)
insert_reported(m, k, v, mark) ==
    The({ The({ reported(b, o, mark) : o \in {cursor_insert(cursor_after(b, k), v)} })
          : b \in {marked_pairs(m, mark)} })

\* remove(k) between two loops over iter().filter_mark(mark)
remove_reported(m, k, mark) ==
    The({ The({ reported(b, o, mark) : o \in {cursor_remove(cursor_after(b, k))} })
          : b \in {marked_pairs(m, mark)} })

\* -------------------------------------------------------------------- drop

\* a drop that frees the root node only
raw_drop_root_only(m) ==
    IF is_node(m.xa.head)
    THEN [heap |-> FreeNode(m.heap, as_node(m.xa.head)),
          freed |-> <<as_node(m.xa.head)>>]
    ELSE [heap |-> m.heap, freed |-> <<>>]

\* impl Drop for RawXArray: the heap after the drop and the nodes freed, in
\* the order of their drops
raw_drop(m) ==
    IF is_node(m.xa.head) THEN FreeWalk(m.heap, as_node(m.xa.head))
    ELSE [heap |-> m.heap, freed |-> <<>>]

\* impl Drop for XArray<T, V>, the loop over inner.iter(): acc is the pairs
\* whose value V::from_raw has reclaimed
RECURSIVE DropLoop(_, _)
DropLoop(m, acc) ==
    The({ IF ~Ok(r.m) \/ r.out = <<>> THEN [m |-> r.m, out |-> acc]
          ELSE DropLoop(r.m, acc \o r.out)
          : r \in {range_next(m, U64_MAX, NoMark)} })

\* impl Drop for XArray<T, V>, then the drop of its field inner
xarray_drop(m) ==
    The({ [m |-> d.m, out |-> d.out, walk |-> raw_drop(d.m)]
          : d \in {DropLoop(m, <<>>)} })

\* xarray::CursorMut::insert of an owned value: V::into_raw leaks it to the
\* raw pointer v, which the cursor of the tree is given; leaked is the raw
\* pointers into_raw made, owned the values from_raw made of raw pointers
owned_insert(m, v) ==
    The({ [m |-> r.m, out |-> r.out, leaked |-> {v}, owned |-> <<>>]
          : r \in {cursor_insert(m, v)} })

\* xarray::CursorMut::remove: V::from_raw on what the cursor of the tree
\* removed
owned_remove(m) ==
    The({ [m |-> r.m, out |-> r.out, leaked |-> {},
           owned |-> IF r.out = None THEN <<>> ELSE <<r.out[1]>>]
          : r \in {cursor_remove(m)} })

\* ------------------------------------------------------------------ state

VARIABLES
    xa,        \* RawXArray: [marks, head]
    heap,      \* the nodes: node id -> Node, or NoNode for a free id
    range,     \* the live Range: [open, xas, end, mark]
    yielded,   \* what the live Range's next() calls returned, in order
    shadow,    \* reference map: live key -> value
    smarks,    \* reference marks: the set of <<key, mark>> set and not unset
    last,      \* the last operation: [op, key, val, mark, old, out, changed]
    wrapped,   \* an arithmetic overflow has wrapped: the build has no checks
    crashed    \* "" or why the program panicked

vars == <<xa, heap, range, yielded, shadow, smarks, last, wrapped, crashed>>

\* the machine of a search state over the tree, in a build with or without
\* overflow checks
Mach(xas, c) ==
    [xa |-> xa, heap |-> heap, xas |-> xas, ret |-> EMPTY, panic |-> "",
     checks |-> c, wrapped |-> FALSE]

\* RawXArray::cursor, RawXArray::cursor_mut
Cursor(index, c) == Mach(NewState(index), c)

\* What an operation does in the builds the run can still be: where no
\* overflow happens both builds agree; where one does, the unchecked build
\* wraps and the checked build (possible while nothing has wrapped) panics.
Builds(Op(_)) ==
    LET u == Op(FALSE) IN
    IF u.m.wrapped /\ ~wrapped THEN {u, Op(TRUE)} ELSE {u}

NoRange == [open |-> FALSE, xas |-> NewState(0), end |-> 0, mark |-> NoMark]
NoOp == [op |-> "new", key |-> 0, val |-> 0, mark |-> NoMark,
         old |-> None, out |-> None, changed |-> FALSE,
         reclaimed |-> <<>>, freed |-> <<>>, same |-> FALSE,
         at |-> [kind |-> "Restart", shift |-> 0], allmarked |-> FALSE,
         again |-> FALSE, calls |-> 0, filter |-> NoMark,
         before |-> <<>>, after |-> <<>>,
         pc |-> "", advance |-> FALSE, from |-> NewState(0),
         leaked |-> {}, owned |-> <<>>, held |-> {}, lost |-> {}]

\* whether the step changes the head, the marks of the array or a node
Changed == xa' # xa \/ heap' # heap

Lookup(map, k) == IF k \in DOMAIN map THEN Some(map[k]) ELSE None
Live == DOMAIN shadow

Init ==
    /\ xa = NewXa
    /\ heap = [i \in NodeIds |-> NoNode]
    /\ range = NoRange
    /\ yielded = <<>>
    /\ shadow = <<>>
    /\ smarks = {}
    /\ last = NoOp
    /\ wrapped = FALSE
    /\ crashed = ""

\* The address Box::new gives a node is the allocator's choice and is never
\* observed except by comparing pointers, so between public operations the
\* nodes are renamed: the ones reachable from the head in depth-first order
\* of their slots, then any other node still allocated.
RECURSIVE SortedSeq(_)
SortedSeq(S) == IF S = {} THEN <<>> ELSE <<Min(S)>> \o SortedSeq(S \ {Min(S)})

ChildSeq(h, n) ==
    IF h[n] = NoNode THEN <<>>
    ELSE LET os == SortedSeq({o \in DOMAIN h[n].slots : is_node(h[n].slots[o])})
         IN  [i \in 1 .. Len(os) |-> as_node(h[n].slots[os[i]])]

RECURSIVE Reach(_, _, _)
Reach(h, todo, acc) ==
    IF todo = <<>> THEN acc
    ELSE LET n == Head(todo) IN
         IF \E i \in 1 .. Len(acc) : acc[i] = n THEN Reach(h, Tail(todo), acc)
         ELSE Reach(h, ChildSeq(h, n) \o Tail(todo), Append(acc, n))

Reachable(head, h) == IF is_node(head) THEN Reach(h, <<as_node(head)>>, <<>>) ELSE <<>>

Rename(head, h) ==
    LET reached == Reachable(head, h)
        inreach == {reached[i] : i \in 1 .. Len(reached)}
        order == reached \o SortedSeq({n \in NodeIds : h[n] # NoNode} \ inreach)
        to == [n \in {order[i] : i \in 1 .. Len(order)} |->
                 CHOOSE i \in 1 .. Len(order) : order[i] = n]
        ren(e) == IF is_node(e) /\ as_node(e) \in DOMAIN to
                  THEN node(to[as_node(e)]) ELSE e
    IN  [head |-> ren(head),
         heap |-> [i \in NodeIds |->
                     IF i > Len(order) THEN NoNode
                     ELSE LET nd == h[order[i]] IN
                          [nd EXCEPT !.parent = ren(@),
                                     !.slots = [j \in DOMAIN nd.slots |-> ren(nd.slots[j])]]]]

\* the tree after an operation of a cursor that then goes away, or the crash
Commit(r) ==
    /\ wrapped' = (wrapped \/ r.m.wrapped)
    /\ IF Ok(r.m)
       THEN LET same == \A n \in NodeIds : (heap[n] = NoNode) <=> (r.m.heap[n] = NoNode)
                c == IF same THEN [head |-> r.m.xa.head, heap |-> r.m.heap]
                     ELSE Rename(r.m.xa.head, r.m.heap)
            IN  /\ xa' = [r.m.xa EXCEPT !.head = c.head]
                /\ heap' = c.heap
                /\ crashed' = ""
       ELSE /\ UNCHANGED <<xa, heap>>
            /\ crashed' = r.m.panic

\* the tree after an operation of a cursor that stays, or the crash
CommitCursor(r) ==
    /\ wrapped' = (wrapped \/ r.m.wrapped)
    /\ IF Ok(r.m)
       THEN /\ xa' = r.m.xa
            /\ heap' = r.m.heap
            /\ crashed' = ""
       ELSE /\ UNCHANGED <<xa, heap>>
            /\ crashed' = r.m.panic

\* the pairs (key, value) stored below node n of the nodes h, the key spelled
\* by the slot offsets on the path from the root: base is what the path to n
\* spells
RECURSIVE StoredBelow(_, _, _)
StoredBelow(h, n, base) ==
    UNION { LET e == h[n].slots[i]
                at == base + i * (2 ^ h[n].shift)
            IN  IF is_node(e) THEN StoredBelow(h, as_node(e), at)
                ELSE IF is_value(e) THEN {<<at, as_value(e)>>}
                ELSE {}
            : i \in DOMAIN h[n].slots }

\* the pairs the array of head x over the nodes h stores
StoredIn(x, h) ==
    IF is_node(x.head) THEN StoredBelow(h, as_node(x.head), 0)
    ELSE IF is_value(x.head) THEN {<<0, as_value(x.head)>>}
    ELSE {}

Stored == StoredIn(xa, heap)

\* the raw pointers the array holds
Held(x, h) == {p[2] : p \in StoredIn(x, h)}

\* RawXArray::get
Get(k) ==
    /\ crashed = ""
    /\ \E r \in Builds(LAMBDA c : cursor_current(Cursor(k, c))) :
       /\ Commit(r)
       /\ last' = [NoOp EXCEPT !.op = "get", !.key = k,
                               !.old = Lookup(shadow, k), !.out = r.out,
                               !.changed = Changed]
    /\ range' = NoRange
    /\ yielded' = <<>>
    /\ UNCHANGED <<shadow, smarks>>

\* RawXArray::insert
Insert(k, v) ==
    /\ crashed = ""
    /\ k \in Live \/ Cardinality(Live) < MaxLive
    /\ \E r \in Builds(LAMBDA c : cursor_insert(Cursor(k, c), v)) :
       /\ Commit(r)
       /\ last' = [NoOp EXCEPT !.op = "insert", !.key = k, !.val = v,
                               !.old = Lookup(shadow, k), !.out = r.out,
                               !.changed = Changed]
    /\ shadow' = IF k \in Live THEN shadow
                 ELSE [j \in Live \cup {k} |-> IF j = k THEN v ELSE shadow[j]]
    /\ range' = NoRange
    /\ yielded' = <<>>
    /\ UNCHANGED <<smarks>>

\* RawXArray::get_or_with with a closure that returns v
GetOrWith(k, v) ==
    /\ crashed = ""
    /\ k \in Live \/ Cardinality(Live) < MaxLive
    /\ \E r \in Builds(LAMBDA c : cursor_current_or_insert(Cursor(k, c), v)) :
       /\ Commit(r)
       /\ last' = [NoOp EXCEPT !.op = "get_or_with", !.key = k, !.val = v,
                               !.old = Lookup(shadow, k), !.out = r.out,
                               !.calls = r.calls, !.changed = Changed]
    /\ shadow' = IF k \in Live THEN shadow
                 ELSE [j \in Live \cup {k} |-> IF j = k THEN v ELSE shadow[j]]
    /\ range' = NoRange
    /\ yielded' = <<>>
    /\ UNCHANGED <<smarks>>

\* RawXArray::remove
Remove(k) ==
    /\ crashed = ""
    /\ \E r \in Builds(LAMBDA c : cursor_remove(Cursor(k, c))) :
       /\ Commit(r)
       /\ last' = [NoOp EXCEPT !.op = "remove", !.key = k,
                               !.old = Lookup(shadow, k), !.out = r.out,
                               !.changed = Changed]
    /\ shadow' = [j \in Live \ {k} |-> shadow[j]]
    /\ smarks' = {p \in smarks : p[1] # k}
    /\ range' = NoRange
    /\ yielded' = <<>>

\* RawXArray::cursor_mut(k).mark(mark)
Mark(k, mark) ==
    /\ crashed = ""
    /\ <<k, mark>> \in smarks \/ Cardinality(smarks) < MaxMarked
    /\ \E r \in Builds(LAMBDA c : cursor_mark(Cursor(k, c), mark)) :
       /\ Commit(r)
       /\ last' = [NoOp EXCEPT !.op = "mark", !.key = k, !.mark = mark,
                               !.old = Lookup(shadow, k), !.changed = Changed,
                               !.again = (last.op = "mark" /\ last.key = k
                                            /\ last.mark = mark)]
    /\ smarks' = IF k \in Live THEN smarks \cup {<<k, mark>>} ELSE smarks
    /\ range' = NoRange
    /\ yielded' = <<>>
    /\ UNCHANGED <<shadow>>

\* RawXArray::cursor_mut(k).unmark(mark)
Unmark(k, mark) ==
    /\ crashed = ""
    /\ \E r \in Builds(LAMBDA c : cursor_unmark(Cursor(k, c), mark)) :
       /\ Commit(r)
       /\ last' = [NoOp EXCEPT !.op = "unmark", !.key = k, !.mark = mark,
                               !.old = Lookup(shadow, k), !.changed = Changed,
                               !.again = (last.op = "unmark" /\ last.key = k
                                            /\ last.mark = mark)]
    /\ smarks' = smarks \ {<<k, mark>>}
    /\ range' = NoRange
    /\ yielded' = <<>>
    /\ UNCHANGED <<shadow>>

\* RawXArray::extract(lo, hi), with .filter_mark(mark) unless mark = NoMark
Extract(lo, hi, mark) ==
    /\ crashed = ""
    /\ range' = [open |-> TRUE, xas |-> NewState(lo), end |-> hi, mark |-> mark]
    /\ yielded' = <<>>
    /\ last' = [NoOp EXCEPT !.op = "extract", !.key = lo]
    /\ UNCHANGED <<xa, heap, shadow, smarks, wrapped, crashed>>

\* a filter_mark that accepts the mark the range filters by already
range_filter_mark_same_accepted(r, mark) ==
    IF r.mark # NoMark /\ r.mark # mark
    THEN [range |-> r, panic |-> "Multiple mark cannot be filtered at once"]
    ELSE [range |-> [r EXCEPT !.mark = mark], panic |-> ""]

\* Range::filter_mark, RangeMut::filter_mark
range_filter_mark(r, mark) ==
    IF r.mark # NoMark
    THEN [range |-> r, panic |-> "Multiple mark cannot be filtered at once"]
    ELSE [range |-> [r EXCEPT !.mark = mark], panic |-> ""]

\* filter_mark(mark) on the live range
FilterMark(mark) ==
    /\ crashed = ""
    /\ range.open
    /\ range' = range_filter_mark(range, mark).range
    /\ crashed' = range_filter_mark(range, mark).panic
    /\ last' = [last EXCEPT !.op = "filter_mark", !.mark = mark,
                            !.filter = range.mark]
    /\ UNCHANGED <<xa, heap, yielded, shadow, smarks, wrapped>>

\* Range::next on the live range
RangeNext ==
    /\ crashed = ""
    /\ range.open
    /\ Len(yielded) < MaxCalls
    /\ \E r \in Builds(LAMBDA c : range_next(Mach(range.xas, c), range.end, range.mark)) :
       /\ CommitCursor(r)
       /\ range' = IF Ok(r.m) THEN [range EXCEPT !.xas = r.m.xas] ELSE range
       /\ yielded' = IF Ok(r.m) THEN Append(yielded, r.out) ELSE yielded
    /\ UNCHANGED <<shadow, smarks, last>>

\* what a step of a call of next() leaves: the search state, the loop the
\* call is in, and what it returned if it has
Settle(r) ==
    /\ CommitCursor(r)
    /\ range' = IF Ok(r.m) THEN [range EXCEPT !.xas = r.m.xas] ELSE range
    /\ yielded' = IF Ok(r.m) /\ r.pc = ""
                  THEN Append(yielded,
                              IF r.m.ret = NoEntry THEN None
                              ELSE <<<<r.m.xas.index, as_value(r.m.ret)>>>>)
                  ELSE yielded
    /\ UNCHANGED <<shadow, smarks>>

\* no call of next() is under way
Idle == last.pc = ""

\* next() on the live iterator, up to its first loop
NextCall ==
    /\ crashed = ""
    /\ range.open
    /\ Idle
    /\ Len(yielded) < MaxCalls
    /\ \E r \in Builds(LAMBDA c : range_next_enter(Mach(range.xas, c), range.end,
                                                    range.mark)) :
       /\ Settle(r)
       /\ last' = [last EXCEPT !.pc = r.pc, !.advance = r.advance,
                               !.from = range.xas]

\* one turn of the loop the call of next() is in
NextStep ==
    /\ crashed = ""
    /\ ~Idle
    /\ \E r \in Builds(LAMBDA c : range_next_step(Mach(range.xas, c), range.end,
                                                   range.mark, last.pc, last.advance)) :
       /\ Settle(r)
       /\ last' = [last EXCEPT !.pc = r.pc, !.advance = r.advance]

\* cursor_mut(k): remove() then insert(v) on it, or remove(k) then insert(k, v)
Replace(k, v, same) ==
    /\ crashed = ""
    /\ k \in Live \/ Cardinality(Live) < MaxLive
    /\ \E r \in Builds(LAMBDA c : cursor_replace(Cursor(k, c), v, same)) :
       /\ Commit(r)
       /\ last' = [NoOp EXCEPT !.op = "replace", !.key = k, !.val = v,
                               !.old = Lookup(shadow, k), !.out = r.out,
                               !.changed = Changed,
                               !.same = same, !.at = r.at]
    /\ shadow' = [j \in Live \cup {k} |-> IF j = k THEN v ELSE shadow[j]]
    /\ smarks' = {p \in smarks : p[1] # k}
    /\ range' = NoRange
    /\ yielded' = <<>>

\* cursor(k), then current() on it: the cursor lives on (in range.xas) until
\* the next call on the array
CursorCurrent(k) ==
    /\ crashed = ""
    /\ \E r \in Builds(LAMBDA c : cursor_current(Cursor(k, c))) :
       /\ CommitCursor(r)
       /\ range' = [NoRange EXCEPT !.xas = r.m.xas]
       /\ last' = [NoOp EXCEPT !.op = "cursor", !.key = k,
                               !.old = Lookup(shadow, k), !.out = r.out]
    /\ yielded' = <<>>
    /\ UNCHANGED <<shadow, smarks>>

\* cursor_mut(k): a fresh cursor, which lives on (in range.xas) until the
\* next call on the array
CursorNew(k) ==
    /\ crashed = ""
    /\ range' = [NoRange EXCEPT !.xas = NewState(k)]
    /\ last' = [NoOp EXCEPT !.op = "cursor_new", !.key = k,
                            !.old = Lookup(shadow, k)]
    /\ yielded' = <<>>
    /\ UNCHANGED <<xa, heap, shadow, smarks, wrapped, crashed>>

\* next(), key() and current() on the live cursor
CursorNext ==
    /\ crashed = ""
    /\ last.op \in {"cursor", "cursor_new"}
    /\ Len(yielded) < MaxCalls
    /\ \E r \in Builds(LAMBDA c : cursor_next_step(Mach(range.xas, c))) :
       /\ CommitCursor(r)
       /\ range' = IF Ok(r.m) THEN [range EXCEPT !.xas = r.m.xas] ELSE range
       /\ yielded' = IF Ok(r.m) THEN Append(yielded, r.out) ELSE yielded
    /\ UNCHANGED <<shadow, smarks, last>>

\* next_allocated(), key() and current() on the live cursor
NextAllocated ==
    /\ crashed = ""
    /\ last.op \in {"cursor", "cursor_new"}
    /\ Len(yielded) < MaxCalls
    /\ \E r \in Builds(LAMBDA c : cursor_step(Mach(range.xas, c))) :
       /\ CommitCursor(r)
       /\ range' = IF Ok(r.m) THEN [range EXCEPT !.xas = r.m.xas] ELSE range
       /\ yielded' = IF Ok(r.m) THEN Append(yielded, r.out) ELSE yielded
    /\ UNCHANGED <<shadow, smarks, last>>

\* iter_mut().filter_mark(mark)
IterMutMarked(mark) ==
    /\ crashed = ""
    /\ range' = [open |-> TRUE, xas |-> NewState(0), end |-> U64_MAX, mark |-> mark]
    /\ yielded' = <<>>
    /\ last' = [NoOp EXCEPT !.op = "iter_mut", !.mark = mark,
                            !.allmarked = \A k \in Live : <<k, mark>> \in smarks]
    /\ UNCHANGED <<xa, heap, shadow, smarks, wrapped, crashed>>

\* one turn of the loop over the live mutable iterator: next(), and
\* as_cursor_mut().unmark(mark) on what it yielded
NextThenUnmark ==
    /\ crashed = ""
    /\ last.op = "iter_mut"
    /\ Len(yielded) < MaxCalls
    /\ ~\E i \in 1 .. Len(yielded) : yielded[i] = None
    /\ \E r \in Builds(LAMBDA c :
              range_next_unmark(Mach(range.xas, c), range.end, range.mark)) :
       /\ CommitCursor(r)
       /\ range' = IF Ok(r.m) THEN [range EXCEPT !.xas = r.m.xas] ELSE range
       /\ yielded' = IF Ok(r.m) THEN Append(yielded, r.out) ELSE yielded
       /\ smarks' = IF Ok(r.m) /\ r.out # None
                    THEN smarks \ {<<r.out[1][1], range.mark>>} ELSE smarks
    /\ UNCHANGED <<shadow, last>>

\* the value a dense fill stores at key k
FillValue(k) == k + 1

\* RawXArray::insert of the next key of a dense fill: the keys below it hold
\* their values and no other key does
Fill ==
    /\ crashed = ""
    /\ Cardinality(Live) < FillCount
    /\ Live = 0 .. (Cardinality(Live) - 1)
    /\ \E r \in Builds(LAMBDA c :
              cursor_insert(Cursor(Cardinality(Live), c),
                            FillValue(Cardinality(Live)))) :
       /\ Commit(r)
       /\ last' = [NoOp EXCEPT !.op = "insert", !.key = Cardinality(Live),
                               !.val = FillValue(Cardinality(Live)),
                               !.out = r.out, !.changed = Changed]
    /\ shadow' = [j \in 0 .. Cardinality(Live) |-> FillValue(j)]
    /\ range' = NoRange
    /\ yielded' = <<>>
    /\ UNCHANGED <<smarks>>

\* RawXArray::iter
Iter ==
    /\ crashed = ""
    /\ range' = [open |-> TRUE, xas |-> NewState(0), end |-> U64_MAX,
                 mark |-> NoMark]
    /\ yielded' = <<>>
    /\ last' = [NoOp EXCEPT !.op = "iter"]
    /\ UNCHANGED <<xa, heap, shadow, smarks, wrapped, crashed>>

\* one turn of a for loop over the live iterator: Range::next, until it has
\* returned None
ForNext ==
    /\ crashed = ""
    /\ last.op = "iter"
    /\ Len(yielded) <= FillCount
    /\ ~\E i \in 1 .. Len(yielded) : yielded[i] = None
    /\ \E r \in Builds(LAMBDA c : range_next(Mach(range.xas, c), range.end, range.mark)) :
       /\ CommitCursor(r)
       /\ range' = IF Ok(r.m) THEN [range EXCEPT !.xas = r.m.xas] ELSE range
       /\ yielded' = IF Ok(r.m) THEN Append(yielded, r.out) ELSE yielded
    /\ UNCHANGED <<shadow, smarks, last>>

\* RawXArray::insert between two loops over iter().filter_mark(mark)
InsertReported(k, v, mark) ==
    /\ crashed = ""
    /\ k \in Live \/ Cardinality(Live) < MaxLive
    /\ \E r \in Builds(LAMBDA c : insert_reported(Cursor(k, c), k, v, mark)) :
       /\ Commit(r)
       /\ last' = [NoOp EXCEPT !.op = "insert", !.key = k, !.val = v,
                               !.mark = mark, !.old = Lookup(shadow, k),
                               !.out = r.out, !.changed = Changed,
                               !.before = r.before, !.after = r.after]
    /\ shadow' = IF k \in Live THEN shadow
                 ELSE [j \in Live \cup {k} |-> IF j = k THEN v ELSE shadow[j]]
    /\ range' = NoRange
    /\ yielded' = <<>>
    /\ UNCHANGED <<smarks>>

\* RawXArray::remove between two loops over iter().filter_mark(mark)
RemoveReported(k, mark) ==
    /\ crashed = ""
    /\ \E r \in Builds(LAMBDA c : remove_reported(Cursor(k, c), k, mark)) :
       /\ Commit(r)
       /\ last' = [NoOp EXCEPT !.op = "remove", !.key = k, !.mark = mark,
                               !.old = Lookup(shadow, k),
                               !.out = r.out, !.changed = Changed,
                               !.before = r.before, !.after = r.after]
    /\ shadow' = [j \in Live \ {k} |-> shadow[j]]
    /\ smarks' = {p \in smarks : p[1] # k}
    /\ range' = NoRange
    /\ yielded' = <<>>

\* the array is dropped (RawXArray) and a new one is made
DropRaw ==
    /\ crashed = ""
    /\ LET w == raw_drop(Mach(NewState(0), FALSE)) IN
       /\ heap' = w.heap
       /\ last' = [NoOp EXCEPT !.op = "drop_raw", !.freed = w.freed]
    /\ xa' = NewXa
    /\ shadow' = <<>>
    /\ smarks' = {}
    /\ range' = NoRange
    /\ yielded' = <<>>
    /\ UNCHANGED <<wrapped, crashed>>

\* the array is dropped through its ownership adapter (XArray<T, V>) and a
\* new one is made
DropOwned ==
    /\ crashed = ""
    /\ \E r \in Builds(LAMBDA c : xarray_drop(Mach(NewState(0), c))) :
       /\ wrapped' = (wrapped \/ r.m.wrapped)
       /\ crashed' = r.m.panic
       /\ heap' = r.walk.heap
       /\ last' = [NoOp EXCEPT !.op = "drop", !.reclaimed = r.out,
                               !.freed = r.walk.freed]
    /\ xa' = NewXa
    /\ shadow' = <<>>
    /\ smarks' = {}
    /\ range' = NoRange
    /\ yielded' = <<>>

\* the keys and values the operations are called with
Keys == {0, 1, 63, 64, 4096, U64_MAX}
Values == {1, 2}

Next ==
    \/ \E k \in Keys, v \in Values : Insert(k, v)
    \/ \E k \in Keys : Remove(k)
    \/ \E k \in Keys : Get(k)

Spec == Init /\ [][Next]_vars

\* insert, remove and the replacement of a value
NextReplace ==
    \/ \E k \in Keys, v \in Values : Insert(k, v)
    \/ \E k \in Keys : Remove(k)
    \/ \E k \in Keys, v \in Values, same \in BOOLEAN : Replace(k, v, same)

SpecReplace == Init /\ [][NextReplace]_vars

\* insert, remove and get_or_with
NextOrWith ==
    \/ \E k \in Keys, v \in Values : Insert(k, v)
    \/ \E k \in Keys : Remove(k)
    \/ \E k \in Keys, v \in Values : GetOrWith(k, v)

SpecOrWith == Init /\ [][NextOrWith]_vars

\* insert, remove and a cursor that walks the allocated keys
NextCursor ==
    \/ \E k \in Keys, v \in Values : Insert(k, v)
    \/ \E k \in Keys : Remove(k)
    \/ \E k \in Keys : CursorCurrent(k)
    \/ NextAllocated

SpecCursor == Init /\ [][NextCursor]_vars

\* insert, remove and a cursor, fresh or positioned, that steps key by key
NextCursorNext ==
    \/ \E k \in Keys, v \in Values : Insert(k, v)
    \/ \E k \in Keys : Remove(k)
    \/ \E k \in Keys : CursorNew(k)
    \/ \E k \in Keys : CursorCurrent(k)
    \/ CursorNext

SpecCursorNext == Init /\ [][NextCursorNext]_vars

\* insert, remove and a fresh cursor that walks the allocated keys
NextCursorFresh ==
    \/ \E k \in Keys \cup {2, U64_MAX - 1}, v \in Values : Insert(k, v)
    \/ \E k \in Keys : Remove(k)
    \/ \E k \in Keys : CursorNew(k)
    \/ NextAllocated

SpecCursorFresh == Init /\ [][NextCursorFresh]_vars

\* the raw pointers that are neither in the array nor made into a value
\* again, after a step of the adapter that leaked some, made values of the
\* pointers in owned and left the array holding after
Lost(leaked, owned, after) ==
    (last.lost \cup Held(xa, heap) \cup leaked)
        \ ({owned[i] : i \in 1 .. Len(owned)} \cup after)

\* XArray::insert(k, v) with a new owned value
OwnedInsert(k, v) ==
    /\ crashed = ""
    /\ k \in Live \/ Cardinality(Live) < MaxLive
    /\ v \notin Held(xa, heap) \cup last.lost
    /\ \E r \in Builds(LAMBDA c : owned_insert(Cursor(k, c), v)) :
       /\ Commit(r)
       /\ last' = [NoOp EXCEPT !.op = "owned_insert", !.key = k, !.val = v,
                               !.old = Lookup(shadow, k), !.out = r.out,
                               !.leaked = r.leaked, !.owned = r.owned,
                               !.held = Held(xa, heap),
                               !.lost = IF Ok(r.m)
                                        THEN Lost(r.leaked, r.owned,
                                                  Held(r.m.xa, r.m.heap))
                                        ELSE last.lost]
    /\ shadow' = IF k \in Live THEN shadow
                 ELSE [j \in Live \cup {k} |-> IF j = k THEN v ELSE shadow[j]]
    /\ range' = NoRange
    /\ yielded' = <<>>
    /\ UNCHANGED <<smarks>>

\* XArray::remove(k)
OwnedRemove(k) ==
    /\ crashed = ""
    /\ \E r \in Builds(LAMBDA c : owned_remove(Cursor(k, c))) :
       /\ Commit(r)
       /\ last' = [NoOp EXCEPT !.op = "owned_remove", !.key = k,
                               !.old = Lookup(shadow, k), !.out = r.out,
                               !.leaked = r.leaked, !.owned = r.owned,
                               !.held = Held(xa, heap),
                               !.lost = IF Ok(r.m)
                                        THEN Lost(r.leaked, r.owned,
                                                  Held(r.m.xa, r.m.heap))
                                        ELSE last.lost]
    /\ shadow' = [j \in Live \ {k} |-> shadow[j]]
    /\ smarks' = {p \in smarks : p[1] # k}
    /\ range' = NoRange
    /\ yielded' = <<>>

\* the array is dropped through its ownership adapter and a new one is made:
\* what the drop does not make a value of is lost
OwnedDrop ==
    /\ crashed = ""
    /\ \E r \in Builds(LAMBDA c : xarray_drop(Mach(NewState(0), c))) :
       /\ wrapped' = (wrapped \/ r.m.wrapped)
       /\ crashed' = r.m.panic
       /\ heap' = r.walk.heap
       /\ last' = [NoOp EXCEPT !.op = "owned_drop", !.reclaimed = r.out,
                               !.freed = r.walk.freed,
                               !.owned = [i \in 1 .. Len(r.out) |-> r.out[i][2]],
                               !.held = Held(xa, heap),
                               !.lost = Lost({}, [i \in 1 .. Len(r.out) |-> r.out[i][2]],
                                             {})]
    /\ xa' = NewXa
    /\ shadow' = <<>>
    /\ smarks' = {}
    /\ range' = NoRange
    /\ yielded' = <<>>

\* insert, remove and drop through the ownership adapter, every owned value
\* a new one
OwnedKeys == {0, 1, 64, U64_MAX}
OwnedValues == 1 .. (MaxLive + 1)

NextOwned ==
    \/ \E k \in OwnedKeys, v \in OwnedValues : OwnedInsert(k, v)
    \/ \E k \in OwnedKeys : OwnedRemove(k)
    \/ OwnedDrop

SpecOwned == Init /\ [][NextOwned]_vars

\* Node::find_mark on a node with a bitmap drawn from the subsets of a few
\* slots (the ends of the bitmap and of its halves), from a start in 0..=64
\* and for each mark; the bitmaps of the other marks hold the other slots
MarkSlots == {0, 1, 31, 32, 33, 62, 63}
MarkStarts == {0, 1, 2, 31, 32, 33, 34, 62, 63, 64}

MarkedNode(bits, mark) ==
    [NewNode(0, EMPTY) EXCEPT
        !.marks = [k \in XaMark |-> IF k = mark THEN bits ELSE MarkSlots \ bits]]

InitFindMark ==
    /\ xa = NewXa
    /\ heap = [i \in NodeIds |-> NoNode]
    /\ range = NoRange
    /\ yielded = <<>>
    /\ shadow = <<>>
    /\ smarks = {}
    /\ \E bits \in SUBSET MarkSlots, start \in MarkStarts, mark \in XaMark :
          last = [NoOp EXCEPT !.op = "bitmap", !.before = bits, !.key = start,
                              !.mark = mark]
    /\ wrapped = FALSE
    /\ crashed = ""

FindMark ==
    /\ last.op = "bitmap"
    /\ last' = [last EXCEPT
                  !.op = "find_mark",
                  !.out = find_mark(MarkedNode(last.before, last.mark),
                                    last.key, last.mark)]
    /\ UNCHANGED <<xa, heap, range, yielded, shadow, smarks, wrapped, crashed>>

NextFindMark == FindMark

SpecFindMark == InitFindMark /\ [][NextFindMark]_vars

\* RawEntry::as_sibling: the Option
opt_sibling(e) == IF is_sibling(e) THEN Some(as_sibling(e)) ELSE None

\* RawEntry::sibling(v) for an offset v of a node, and what the predicates
\* and as_sibling make of the entry
InitSibling ==
    /\ xa = NewXa
    /\ heap = [i \in NodeIds |-> NoNode]
    /\ range = NoRange
    /\ yielded = <<>>
    /\ shadow = <<>>
    /\ smarks = {}
    /\ \E v \in Offsets : last = [NoOp EXCEPT !.op = "offset", !.key = v]
    /\ wrapped = FALSE
    /\ crashed = ""

Sibling ==
    /\ last.op = "offset"
    /\ last' = [last EXCEPT
                  !.op = "sibling",
                  !.val = sibling(last.key),
                  !.out = opt_sibling(sibling(last.key))]
    /\ UNCHANGED <<xa, heap, range, yielded, shadow, smarks, wrapped, crashed>>

NextSibling == Sibling

SpecSibling == InitSibling /\ [][NextSibling]_vars

\* insert, remove and the drop of the array
NextDrop ==
    \/ \E k \in Keys, v \in Values : Insert(k, v)
    \/ \E k \in Keys : Remove(k)
    \/ DropRaw
    \/ DropOwned

SpecDrop == Init /\ [][NextDrop]_vars

\* insert, remove and plain range iteration
RangeKeys == {0, 63, 64, U64_MAX - CHUNK_MASK, U64_MAX}

NextRange ==
    \/ \E k \in RangeKeys, v \in Values : Insert(k, v)
    \/ \E k \in RangeKeys : Remove(k)
    \/ \E lo \in RangeKeys, hi \in RangeKeys : Extract(lo, hi, NoMark)
    \/ RangeNext

SpecRange == Init /\ [][NextRange]_vars

\* insert, remove, mark, unmark and range iteration, plain or over a mark
MarkKeys == {0, 64, U64_MAX}
MarkValues == {1}
\* the mark set and unset, and what the iterator filters by
SetMarks == {0}
Filters == {0, 1, NoMark}

NextMark ==
    \/ \E k \in MarkKeys, v \in MarkValues : Insert(k, v)
    \/ \E k \in MarkKeys : Remove(k)
    \/ \E k \in MarkKeys, mark \in SetMarks : Mark(k, mark)
    \/ \E k \in MarkKeys, mark \in SetMarks : Unmark(k, mark)
    \/ \E k \in MarkKeys : Get(k)
    \/ \E lo \in {0, 64}, hi \in {64, U64_MAX}, mark \in Filters :
          Extract(lo, hi, mark)
    \/ RangeNext

SpecMark == Init /\ [][NextMark]_vars

\* insert, remove, mark and range iteration, plain or over a mark, with the
\* loops of next() turn by turn; a call that has begun runs on, and an
\* iterator is asked again
StepKeys == {0, 64, U64_MAX}
StepRemoved == {64}

NextSteps ==
    \/ \E k \in StepKeys, v \in MarkValues : Idle /\ Insert(k, v)
    \/ \E k \in StepRemoved : Idle /\ Remove(k)
    \/ \E k \in StepKeys, mark \in SetMarks : Idle /\ Mark(k, mark)
    \/ \E lo \in {0, 64}, hi \in {64, U64_MAX}, mark \in {0, NoMark} :
          Idle /\ Extract(lo, hi, mark)
    \/ NextCall
    \/ NextStep

SpecSteps ==
    Init /\ [][NextSteps]_vars /\ WF_vars(NextCall) /\ WF_vars(NextStep)

\* insert, mark and unmark: no value is removed
MarkOnlyKeys == {0, 1, 64, U64_MAX}

NextMarkOnly ==
    \/ \E k \in MarkOnlyKeys, v \in MarkValues : Insert(k, v)
    \/ \E k \in MarkOnlyKeys, mark \in XaMark : Mark(k, mark)
    \/ \E k \in MarkOnlyKeys, mark \in XaMark : Unmark(k, mark)

SpecMarkOnly == Init /\ [][NextMarkOnly]_vars

\* insert, mark and range iteration with filter_mark calls
NextFilter ==
    \/ \E k \in MarkKeys, v \in MarkValues : Insert(k, v)
    \/ \E k \in MarkKeys, mark \in SetMarks : Mark(k, mark)
    \/ \E lo \in {0, 64}, hi \in {64, U64_MAX} : Extract(lo, hi, NoMark)
    \/ \E mark \in XaMark : FilterMark(mark)
    \/ RangeNext

SpecFilter == Init /\ [][NextFilter]_vars

\* insert and remove between mark-filtered loops, mark and unmark
NextFrame ==
    \/ \E k \in MarkOnlyKeys, v \in MarkValues, mark \in SetMarks :
          InsertReported(k, v, mark)
    \/ \E k \in MarkOnlyKeys, mark \in SetMarks : RemoveReported(k, mark)
    \/ \E k \in MarkOnlyKeys, mark \in SetMarks : Mark(k, mark)
    \/ \E k \in MarkOnlyKeys, mark \in SetMarks : Unmark(k, mark)

SpecFrame == Init /\ [][NextFrame]_vars

\* insert, remove, mark and unmark with two of the marks
FrameMarks == {0, 1}

FrameKeys == {0, 1, 64}

NextMarkFrame ==
    \/ \E k \in FrameKeys, v \in MarkValues : Insert(k, v)
    \/ \E k \in FrameKeys : Remove(k)
    \/ \E k \in FrameKeys, mark \in FrameMarks : Mark(k, mark)
    \/ \E k \in FrameKeys, mark \in FrameMarks : Unmark(k, mark)

SpecMarkFrame == Init /\ [][NextMarkFrame]_vars

\* insert, mark and a loop that unmarks what it visits
UnmarkKeys == {0, 1, 64, U64_MAX}

NextUnmarkLoop ==
    \/ \E k \in UnmarkKeys, v \in MarkValues : Insert(k, v)
    \/ \E k \in UnmarkKeys, mark \in SetMarks : Mark(k, mark)
    \/ \E mark \in SetMarks : IterMutMarked(mark)
    \/ NextThenUnmark

SpecUnmarkLoop == Init /\ [][NextUnmarkLoop]_vars

\* a dense fill and a loop over iter()
NextDense ==
    \/ Fill
    \/ Iter
    \/ ForNext

SpecDense == Init /\ [][NextDense]_vars

\* ------------------------------------------------- insert, remove and get

\* RawXArray::get on the tree as it is now
get(k) == cursor_current(Cursor(k, FALSE)).out

\* the keys get is asked for: the keys operated on and their neighbours
ProbeKeys == Keys \cup {2, 62, 65, 127, 4095, 4097, U64_MAX - 1, U64_MAX - CHUNK_SIZE}

\* C1: an insert(k, v) on a key that holds no value returns None, and get(k)
\* then returns Some(v): for key 0, for the largest key and for the keys
\* between, from every tree the operations can build.
C1_InsertAbsent ==
    (last.op = "insert" /\ last.old = None) =>
        /\ crashed = ""
        /\ last.out = None
        /\ get(last.key) = Some(last.val)

C1_Witness ==
    /\ last.op = "insert" /\ last.old = None /\ last.key = U64_MAX
    /\ Cardinality(Live) = MaxLive
    /\ get(U64_MAX) = Some(last.val)

\* C2: a remove(k) on a key that holds v returns Some(v) and get(k) then
\* returns None; a remove(k) on a key that holds no value returns None and
\* leaves the head, the nodes, their counts and the marks as they were.
C2_Remove ==
    (last.op = "remove") =>
        /\ crashed = ""
        /\ last.out = last.old
        /\ get(last.key) = None
        /\ (last.old = None) => ~last.changed

C2_Witness ==
    /\ last.op = "remove" /\ last.old # None /\ last.out = last.old
    /\ Cardinality(Live) = MaxLive - 1
    /\ get(last.key) = None

C2_WitnessAbsent ==
    /\ last.op = "remove" /\ last.old = None /\ last.out = None
    /\ Cardinality(Live) = MaxLive

\* C3: an insert(k, v2) on a key that holds v1 returns Some(v1), does not
\* replace the value, and leaves the tree as it was.
C3_InsertPresent ==
    (last.op = "insert" /\ last.old # None) =>
        /\ crashed = ""
        /\ last.out = last.old
        /\ get(last.key) = last.old
        /\ ~last.changed

C3_Witness ==
    /\ last.op = "insert" /\ last.old # None /\ last.old # Some(last.val)
    /\ last.out = last.old
    /\ get(last.key) = last.old

\* C4: after every sequence of insert and remove calls, get(j) returns what
\* the reference map holds for j, for every key j.
C4_GetIsReference ==
    /\ crashed = ""
    /\ \A j \in ProbeKeys : get(j) = Lookup(shadow, j)

C4_Witness ==
    /\ last.op = "remove" /\ last.old # None
    /\ Cardinality(Live) = MaxLive - 1
    /\ \E j \in Live : j > CHUNK_SIZE /\ get(j) = Some(shadow[j])
    /\ \E j \in ProbeKeys \ Live : get(j) = None

\* ------------------------------------------------------------- iteration

\* the range the live iterator was made for
RangeLo == last.key
RangeHi == range.end

\* the pairs a range iterator has yielded, in order, and the ones it yielded
\* before it first returned None (what a for loop over it sees)
RECURSIVE Pairs(_)
Pairs(ys) ==
    IF ys = <<>> THEN <<>>
    ELSE (IF Head(ys) = None THEN <<>> ELSE <<Head(ys)[1]>>) \o Pairs(Tail(ys))

RECURSIVE Taken(_)
Taken(ys) ==
    IF ys = <<>> \/ Head(ys) = None THEN <<>>
    ELSE <<Head(ys)[1]>> \o Taken(Tail(ys))

Finished == \E i \in 1 .. Len(yielded) : yielded[i] = None

\* the reference: the live pairs of a range that carry the mark, by key
Expected(lo, hi, mark) ==
    LET ks == SortedSeq({k \in Live : /\ lo <= k /\ k <= hi
                                      /\ (mark = NoMark \/ <<k, mark>> \in smarks)})
    IN  [i \in 1 .. Len(ks) |-> <<ks[i], shadow[ks[i]]>>]

IsPrefix(a, b) == Len(a) <= Len(b) /\ \A i \in 1 .. Len(a) : a[i] = b[i]

\* a loop over the live iterator sees the reference, in its order
YieldsExpected ==
    /\ crashed = ""
    /\ IsPrefix(Taken(yielded), Expected(RangeLo, RangeHi, range.mark))
    /\ Finished => Taken(yielded) = Expected(RangeLo, RangeHi, range.mark)

\* C5: after every sequence of insert and remove calls, iter() yields the
\* live keys, each with its value, in increasing order of the keys, whether
\* key 0 is live or not.
C5_IterYieldsLive ==
    (range.open /\ range.mark = NoMark /\ RangeLo = 0 /\ RangeHi = U64_MAX)
        => YieldsExpected

\* C6: extract(lo, hi) yields the live entries with lo <= k <= hi, both ends
\* included: also a live key equal to hi that is the first slot of the next
\* node, and also the live keys above lo when lo holds no value.
C6_ExtractInclusive ==
    (range.open /\ range.mark = NoMark) => YieldsExpected

\* C6, the case of a live lo and a live hi in two nodes
C6_EndInNextNode ==
    (/\ range.open /\ range.mark = NoMark
     /\ RangeLo \in Live /\ RangeHi \in Live
     /\ RangeLo \div CHUNK_SIZE # RangeHi \div CHUNK_SIZE)
        => YieldsExpected

\* C6, the case of a lo that holds no value
C6_StartEmpty ==
    (range.open /\ range.mark = NoMark /\ RangeLo \notin Live) => YieldsExpected

\* C7: the keys successive next() calls on one range iterator yield, plain
\* or filtered by a mark, are strictly increasing: no key is yielded twice.
C7_KeysIncrease ==
    LET ps == Pairs(yielded) IN
    \A i \in 1 .. Len(ps) : \A j \in 1 .. Len(ps) :
        (i < j) => (ps[i][1] < ps[j][1])

\* C8: every pair (k, v) that extract(lo, hi) yields has lo <= k <= hi and
\* get(k) = Some(v).
C8_YieldedInRangeAndLive ==
    (range.open /\ range.mark = NoMark) =>
        LET ps == Pairs(yielded) IN
        \A i \in 1 .. Len(ps) :
            /\ RangeLo <= ps[i][1] /\ ps[i][1] <= RangeHi
            /\ get(ps[i][1]) = Some(ps[i][2])

C8_Witness ==
    /\ range.open /\ range.mark = NoMark /\ crashed = ""
    /\ RangeLo \in Live /\ RangeLo < RangeHi
    /\ LET ps == Taken(yielded) IN
       /\ Len(ps) >= 2
       /\ ps[1][1] = RangeLo
       /\ ps[1][1] \div CHUNK_SIZE # ps[2][1] \div CHUNK_SIZE
       /\ get(ps[2][1]) = Some(ps[2][2])

\* ------------------------------------------------------------------ marks

\* C9: after every sequence of insert, remove, mark and unmark calls,
\* iter().filter_mark(m) yields the live keys that carry mark m (marked since
\* their value was inserted and not unmarked since), each once, in increasing
\* order, and never an empty slot.
C9_FilterMarkYieldsMarked ==
    (range.open /\ range.mark # NoMark /\ RangeLo = 0 /\ RangeHi = U64_MAX)
        => YieldsExpected

\* C9, in a tree below the largest height (no arithmetic on keys overflows)
C9_BelowMaxHeight ==
    (/\ range.open /\ range.mark # NoMark /\ RangeLo = 0 /\ RangeHi = U64_MAX
     /\ ~wrapped /\ (is_node(xa.head) => ~node_max_index_overflows(heap[as_node(xa.head)])))
        => YieldsExpected

\* C10: over every sequence of insert, mark and unmark calls (no remove),
\* is_marked(m) is true exactly when a live value carries mark m.
C10_IsMarkedIffCarried ==
    /\ crashed = ""
    /\ \A mark \in XaMark :
         is_marked(xa, mark) <=> (\E k \in Live : <<k, mark>> \in smarks)

C10_Witness ==
    /\ last.op = "unmark" /\ last.old # None /\ last.changed
    /\ is_marked(xa, last.mark)
    /\ <<last.key, last.mark>> \notin smarks
    /\ \E k \in Live : <<k, last.mark>> \in smarks
    /\ \E mark \in XaMark : ~is_marked(xa, mark)

\* ------------------------------------------------ emptiness and the frame

\* RawXArray::is_empty
is_empty(root) == is_null(root.head)

\* the last call removed the last value the tree held
AllRemoved == last.op = "remove" /\ last.old # None /\ Live = {}

\* C11: once every inserted key has been removed, whatever marks the values
\* carried before, the tree is empty and is_marked(m) is false for each mark.
C11_AllRemovedUnmarked ==
    AllRemoved =>
        /\ crashed = ""
        /\ is_empty(xa)
        /\ \A mark \in XaMark : ~is_marked(xa, mark)

\* C11, the part about the tree only
C11_AllRemovedEmpty == AllRemoved => (crashed = "" /\ is_empty(xa))

\* C12: after every sequence of insert and remove calls, is_empty() is true
\* exactly when no key holds a value; once every inserted key has been
\* removed the head is the null entry again.
C12_EmptyIffNoValue ==
    /\ crashed = ""
    /\ is_empty(xa) <=> (Live = {})
    /\ AllRemoved => xa.head = EMPTY

\* the last of several values is removed, from a leaf below the root
C12_Witness ==
    /\ AllRemoved /\ last.key > CHUNK_SIZE /\ last.changed
    /\ is_empty(xa)

C12_WitnessNonEmpty ==
    /\ last.op = "remove" /\ last.old # None /\ Live # {}
    /\ ~is_empty(xa)

\* the step is a get (or a current of a fresh cursor), or a next() of the
\* live range iterator
ReadStep ==
    \/ last'.op = "get"
    \/ range.open /\ range'.open /\ Len(yielded') > Len(yielded)

\* C13: get, Cursor::current and every next() of a range iterator leave the
\* tree as it was: the head, the marks of the array, the set of nodes and
\* every field of every node are the same after the call as before.
C13_ReadsLeaveTree == [][ReadStep => (xa' = xa /\ heap' = heap)]_vars

\* a mark-filtered iterator has stepped from one leaf to the next
C13_Witness ==
    /\ range.open /\ range.mark # NoMark /\ crashed = ""
    /\ Len(Taken(yielded)) >= 2
    /\ Taken(yielded)[1][1] \div CHUNK_SIZE # Taken(yielded)[2][1] \div CHUNK_SIZE

C13_WitnessGet ==
    /\ last.op = "get" /\ last.out # None /\ last.key > CHUNK_SIZE
    /\ smarks # {}

\* --------------------------------------------------------------- the heap

\* the nodes allocated and not freed, and the nodes reachable from the head
Allocated == {n \in NodeIds : heap[n] # NoNode}
ReachedSet ==
    LET reached == Reachable(xa.head, heap)
    IN  {reached[i] : i \in 1 .. Len(reached)}

\* every node pointer of the tree points to a node that is not freed, and
\* the node knows the one slot that points to it: no node can be reached,
\* and so freed, a second time
PointersLive ==
    /\ is_node(xa.head) =>
          /\ as_node(xa.head) \in Allocated
          /\ heap[as_node(xa.head)].parent = EMPTY
    /\ \A p \in Allocated : \A o \in DOMAIN heap[p].slots :
          is_node(heap[p].slots[o]) =>
              /\ as_node(heap[p].slots[o]) \in Allocated
              /\ heap[as_node(heap[p].slots[o])].parent = node(p)
              /\ heap[as_node(heap[p].slots[o])].offset = o

\* C14: after every sequence of insert and remove calls, every node that
\* was allocated and not freed is reachable from the head and no node is
\* freed twice; once the last key is removed (also a key that needs a root
\* of the largest height) the head is empty and every node is freed.
C14_NodesReachableFreedOnce ==
    /\ crashed = ""
    /\ Allocated = ReachedSet
    /\ PointersLive
    /\ AllRemoved => (xa.head = EMPTY /\ Allocated = {})

\* the key that needs the largest root height was the last one removed
C14_Witness ==
    /\ AllRemoved /\ last.key = U64_MAX /\ last.changed
    /\ xa.head = EMPTY /\ Allocated = {}

\* a tree of the largest height, with a leaf of each subtree
C14_WitnessTall ==
    /\ Cardinality(Live) = MaxLive /\ U64_MAX \in Live /\ 0 \in Live
    /\ Cardinality(Allocated) > Levels
    /\ Allocated = ReachedSet

\* -------------------------------------------------------------------- drop

\* the live pairs, by key
LivePairs ==
    LET ks == SortedSeq(Live) IN [i \in 1 .. Len(ks) |-> <<ks[i], shadow[ks[i]]>>]

\* C15: the drop of the ownership adapter, in every state the operations
\* reach, reclaims every live value once: one V::from_raw for each value
\* still stored, whichever keys are live, also when key 0 holds no value.
C15_DropReclaimsLive ==
    [][(last'.op = "drop") =>
          (crashed' = "" /\ last'.reclaimed = LivePairs)]_vars

\* C15, for the arrays whose key 0 holds a value
C15_DropWithKeyZero ==
    [][(last'.op = "drop" /\ 0 \in Live) =>
          (crashed' = "" /\ last'.reclaimed = LivePairs)]_vars

\* C16: the drop of the tree, in every state the operations reach, ends
\* and frees every node reachable from the head once, each node after the
\* nodes below it.
C16_DropFreesNodes ==
    [][(last'.op \in {"drop", "drop_raw"}) =>
          LET f == last'.freed IN
          /\ {f[i] : i \in 1 .. Len(f)} = ReachedSet
          /\ \A i \in 1 .. Len(f) : \A j \in 1 .. Len(f) :
                /\ (i # j) => (f[i] # f[j])
                /\ (heap[f[i]].parent = node(f[j])) => (i < j)
          /\ \A n \in NodeIds : heap'[n] = NoNode]_vars

\* a tree of the largest height with two leaves has been dropped
C16_Witness ==
    /\ last.op = "drop_raw" /\ Len(last.freed) > Levels
    /\ Allocated = {}

\* ------------------------------------------------------------ replacement

\* C17: remove then insert replaces a value: for a key that holds v1,
\* remove(k) then insert(k, v2) returns None from the insert and get(k) is
\* then Some(v2); also when both calls go through one mutable cursor,
\* whatever state the remove left it in (Bound, or on a surviving ancestor
\* of the nodes it deleted).
C17_RemoveThenInsert ==
    (last.op = "replace" /\ last.old # None) =>
        /\ crashed = ""
        /\ last.out = None
        /\ get(last.key) = Some(last.val)

\* one cursor, left by the remove on an ancestor above the deleted nodes
C17_Witness ==
    /\ last.op = "replace" /\ last.same
    /\ last.old # None /\ last.old # Some(last.val)
    /\ last.at.kind = "Node" /\ last.at.shift > 0
    /\ get(last.key) = Some(last.val)

\* one cursor, left Bound by the remove
C17_WitnessBound ==
    /\ last.op = "replace" /\ last.same
    /\ last.old # None /\ last.old # Some(last.val)
    /\ last.at.kind = "Bound" /\ Cardinality(Live) > 1
    /\ get(last.key) = Some(last.val)

\* two cursors
C17_WitnessFresh ==
    /\ last.op = "replace" /\ ~last.same
    /\ last.old # None /\ last.old # Some(last.val)
    /\ get(last.key) = Some(last.val)

\* ----------------------------------------------------------------- cursor

\* the live keys above k with their values, by key
Above(k) ==
    LET ks == SortedSeq({j \in Live : j > k})
    IN  [i \in 1 .. Len(ks) |-> <<ks[i], Some(shadow[ks[i]])>>]

\* C18: for a cursor that current() has positioned on a live key k, each
\* next_allocated() moves it to the smallest live key above the one it is
\* on, while there is one: key() is then that key and current() its value,
\* so the calls visit the live keys above k in increasing order.
C18_NextAllocatedVisitsLive ==
    (last.op = "cursor" /\ last.old # None) =>
        /\ \A i \in 1 .. Len(yielded) :
              (i <= Len(Above(last.key))) => (yielded[i] = Above(last.key)[i])
        /\ (crashed # "") => (Len(yielded) >= Len(Above(last.key)))

\* the cursor has walked from its leaf to the next and on to another subtree
C18_Witness ==
    /\ last.op = "cursor" /\ last.old # None /\ crashed = ""
    /\ Len(yielded) = 2 /\ Len(Above(last.key)) = 2
    /\ yielded[1] = Above(last.key)[1] /\ yielded[2] = Above(last.key)[2]
    /\ last.key \div CHUNK_SIZE # yielded[1][1] \div CHUNK_SIZE
    /\ yielded[1][1] \div (CHUNK_SIZE * CHUNK_SIZE)
         # yielded[2][1] \div (CHUNK_SIZE * CHUNK_SIZE)

\* ---------------------------------------------------- unmarking iteration

\* no node holds a bit of the mark
NoBitOf(mark) == \A n \in Allocated : heap[n].marks[mark] = {}

\* the loop saw every live key once, in order, and left nothing marked
LoopVisitsAll ==
    /\ crashed = ""
    /\ IsPrefix(Taken(yielded), LivePairs)
    /\ Finished =>
          /\ Taken(yielded) = LivePairs
          /\ ~is_marked(xa, last.mark)
          /\ NoBitOf(last.mark)

\* C19: when every live key carries mark m and unmark(m) is called on the
\* cursor after each step of a mutable iteration filtered by m, the
\* iteration visits every live key once, and after the loop is_marked(m) is
\* false and no key is marked m.
C19_UnmarkLoopVisitsAll ==
    (last.op = "iter_mut" /\ last.allmarked) => LoopVisitsAll

\* the root is below the largest height: no arithmetic on keys overflows
BelowMaxHeight ==
    is_node(xa.head) => ~node_max_index_overflows(heap[as_node(xa.head)])

\* C19, for the trees below the largest height
C19_BelowMaxHeight ==
    (last.op = "iter_mut" /\ last.allmarked /\ BelowMaxHeight) => LoopVisitsAll

\* C19, in a build without overflow checks
C19_Unchecked ==
    (last.op = "iter_mut" /\ last.allmarked /\ wrapped) => LoopVisitsAll

\* ------------------------------------------------- iteration, dense keys

\* the keys 0 .. n - 1 hold their values, no other key does, and they span
\* more than one leaf
DenseFilled(n) == n > CHUNK_SIZE /\ Live = 0 .. (n - 1)

\* the i-th call of next() on an iterator over n dense keys returns
\* Some((i - 1, v)) with v the value at key i - 1, and the call after the
\* last key returns None
DenseYield(n, i) ==
    IF i <= n THEN yielded[i] = Some(<<i - 1, shadow[i - 1]>>)
    ELSE yielded[i] = None

\* C20: after inserting values at the contiguous keys 0 .. N-1, with N large
\* enough to span several leaf nodes, iter() yields (0, v0), (1, v1), ...,
\* (N-1, vN-1) in that order and then ends; no call of next() panics.
C20_DenseIterInOrder ==
    \A n \in (CHUNK_SIZE + 1) .. FillCount :
        (DenseFilled(n) /\ last.op = "iter")
            => /\ crashed = ""
               /\ Len(yielded) <= n + 1
               /\ \A i \in 1 .. Len(yielded) : DenseYield(n, i)

\* the loop over the whole fill, three leaves, has run to its end
C20_Witness ==
    /\ DenseFilled(FillCount)
    /\ last.op = "iter"
    /\ Len(yielded) = FillCount + 1
    /\ yielded[FillCount] = Some(<<FillCount - 1, FillValue(FillCount - 1)>>)
    /\ yielded[FillCount + 1] = None

\* the loop has ended after the last slot of a leaf: two full leaves
C20_WitnessFullLeaves ==
    /\ DenseFilled(2 * CHUNK_SIZE)
    /\ last.op = "iter"
    /\ Len(yielded) = 2 * CHUNK_SIZE + 1
    /\ yielded[2 * CHUNK_SIZE + 1] = None

\* the same below one leaf: the keys 0 .. n - 1 of one leaf, or key 0 alone
\* at the head
C20_DenseInOneLeaf ==
    \A n \in 1 .. CHUNK_SIZE :
        (Live = 0 .. (n - 1) /\ last.op = "iter")
            => /\ crashed = ""
               /\ Len(yielded) <= n + 1
               /\ \A i \in 1 .. Len(yielded) : DenseYield(n, i)

\* ------------------------------------------------------------------ marks

\* the last call was mark or unmark on a live key, straight after the same
\* call on the same key with the same mark
MarkedAgain == last.op \in {"mark", "unmark"} /\ last.again /\ last.old # None

\* C21: mark(m) and unmark(m) are idempotent: the second of two calls of
\* mark(m) in a row on the same value returns and leaves the marks of the
\* array and every node as the first left them, and likewise for unmark(m),
\* also when the value never carried m.
C21_MarkIdempotent == MarkedAgain => (crashed = "" /\ ~last.changed)

\* mark(m) was called twice on a value in a node, and the first call set m
C21_Witness ==
    /\ MarkedAgain
    /\ last.op = "mark"
    /\ is_node(xa.head)
    /\ <<last.key, last.mark>> \in smarks

\* unmark(m) was called twice on a value in a node
C21_WitnessUnmark ==
    /\ MarkedAgain
    /\ last.op = "unmark"
    /\ is_node(xa.head)

\* unmark(m) on a value that does not carry m changes nothing, in a tree no
\* value was removed from
C21_UnmarkUnmarked ==
    [][(/\ last'.op = "unmark"
        /\ last'.old # None
        /\ <<last'.key, last'.mark>> \notin smarks)
           => (xa' = xa /\ heap' = heap /\ crashed' = "")]_vars

\* unmark(m) was called on a value that does not carry m while another does
C21_WitnessUnmarked ==
    /\ last.op = "unmark"
    /\ last.old # None
    /\ ~last.changed
    /\ \E k \in Live : <<k, last.mark>> \in smarks

\* ------------------------------------------------------------ get_or_with

\* C22: get_or_with(k, f) on a key that holds v returns (false, v) without
\* a call of f and without a change of the tree; on a key that holds no
\* value it calls f once, stores what f returned, returns (true, that) and
\* get(k) then returns it.
C22_GetOrWith ==
    last.op = "get_or_with"
        => /\ crashed = ""
           /\ IF last.old # None
              THEN /\ last.out = <<FALSE, last.old[1]>>
                   /\ last.calls = 0
                   /\ ~last.changed
              ELSE /\ last.out = <<TRUE, last.val>>
                   /\ last.calls = 1
                   /\ get(last.key) = Some(last.val)

\* get_or_with stored a value at a key that makes the root grow
C22_Witness ==
    /\ last.op = "get_or_with"
    /\ last.old = None
    /\ last.key = U64_MAX
    /\ Cardinality(Live) > 1
    /\ get(last.key) = Some(last.val)

\* get_or_with found a value other than the one its closure would return
C22_WitnessPresent ==
    /\ last.op = "get_or_with"
    /\ last.old # None
    /\ last.old # Some(last.val)
    /\ is_node(xa.head)

\* ----------------------------------------------- mark on an empty slot

\* C23: mark(m) or unmark(m) through a cursor whose slot holds no value is a
\* fatal failure: the call does not return normally.
C23_MarkEmptyIsFatal ==
    (last.op \in {"mark", "unmark"} /\ last.old = None) => crashed # ""

\* what the calls do: they return and leave the marks of the array and of
\* every node as they were
C23_MarkEmptyReturns ==
    (last.op \in {"mark", "unmark"} /\ last.old = None)
        => (crashed = "" /\ ~last.changed)

\* ------------------------------------------------------------ filter_mark

\* C24: a range iterator accepts a mark filter at most once: the first
\* filter_mark call returns the iterator with the filter set, and a second
\* filter_mark call on it panics, for every pair of marks, the same mark
\* twice included.
C24_FilterMarkOnce ==
    [][(last' # last /\ last'.op = "filter_mark")
          => IF range.mark = NoMark
             THEN crashed' = "" /\ range'.mark = last'.mark
             ELSE crashed' = "Multiple mark cannot be filtered at once"]_vars

\* filter_mark was called with the mark the iterator filters by already
C24_Witness ==
    /\ last.op = "filter_mark"
    /\ last.filter = last.mark
    /\ crashed # ""

\* filter_mark was called with a second mark
C24_WitnessOther ==
    /\ last.op = "filter_mark"
    /\ last.filter # NoMark
    /\ last.filter # last.mark
    /\ crashed # ""

\* the first filter_mark was called after a call of next()
C24_WitnessFirst ==
    /\ last.op = "filter_mark"
    /\ last.filter = NoMark
    /\ yielded # <<>>
    /\ range.mark = last.mark

\* ------------------------------------------------------- mark bits, nodes

\* the smallest key of the subtree of node n
RECURSIVE NodeBase(_)
NodeBase(n) ==
    IF is_node(heap[n].parent)
    THEN NodeBase(as_node(heap[n].parent))
            + Shl(heap[n].offset, heap[as_node(heap[n].parent)].shift)
    ELSE 0

\* what bit i of n.marks[mark] has to be: in a leaf, slot i is a value that
\* carries the mark; in an internal node, slot i is a child with a bit of the
\* mark set
BitExpected(n, i, mark) ==
    LET e == node_entry(heap[n], i) IN
    IF heap[n].shift = 0
    THEN is_value(e) /\ <<NodeBase(n) + i, mark>> \in smarks
    ELSE is_node(e) /\ heap[as_node(e)].marks[mark] # {}

MarkBitsExact ==
    \A n \in ReachedSet : \A i \in Offsets : \A mark \in XaMark :
        (i \in heap[n].marks[mark]) <=> BitExpected(n, i, mark)

\* C25: after every sequence of insert, remove, mark and unmark calls, for
\* every node n, slot i and mark m, bit i of n.marks[m] is set exactly when
\* slot i is a value that carries m (leaf) or a child whose subtree holds a
\* value that carries m (internal node); no bit is set for an empty slot.
C25_MarkBitsExact == crashed = "" => MarkBitsExact

\* the same where no value is removed: insert, mark and unmark only
C25_WithoutRemove == crashed = "" => MarkBitsExact

\* ------------------------------------------------------------ node counts

\* the entries of the non-empty slots of node n
Entries(n) == {o \in Offsets : node_entry(heap[n], o) # EMPTY}

CountsExact ==
    \A n \in Allocated :
        /\ heap[n].count = Cardinality(Entries(n))
        /\ heap[n].nr_value =
              Cardinality({o \in Entries(n) : is_value(node_entry(heap[n], o))})

\* C26: after every sequence of public operations, the count of every node
\* is the number of its non-empty slots and its nr_value the number of its
\* slots that hold a value: in the nodes made by root growth and by child
\* allocation and in the parents of deleted nodes too.
C26_CountsExact == crashed = "" => CountsExact

\* a remove took a value out of a tree whose root is an internal node and
\* left the root one child
C26_Witness ==
    /\ last.op = "remove" /\ last.old # None /\ last.changed
    /\ is_node(xa.head)
    /\ heap[as_node(xa.head)].shift > 0
    /\ heap[as_node(xa.head)].count = 1

\* the root grew over a node: the new root counts the old one
C26_WitnessGrown ==
    /\ last.op = "insert" /\ last.key = U64_MAX /\ last.changed
    /\ Cardinality(Live) = MaxLive
    /\ heap[as_node(xa.head)].count = 2
    /\ heap[as_node(xa.head)].nr_value = 0

\* ------------------------------------------------------------ root height

\* the least multiple s of CHUNK_SHIFT with k < CHUNK_SIZE * 2^s
RECURSIVE MinRootShift(_, _)
MinRootShift(k, s) ==
    IF Shr(k, s) < CHUNK_SIZE THEN s ELSE MinRootShift(k, s + CHUNK_SHIFT)

RootMinimal ==
    IF Live = {} THEN TRUE
    ELSE IF Live = {0} THEN is_value(xa.head)
    ELSE /\ is_node(xa.head)
         /\ heap[as_node(xa.head)].shift = MinRootShift(Max(Live), 0)

\* C27: after every sequence of insert and remove calls the root is as
\* short as the largest live key allows: the head is a direct value when
\* key 0 is the only live key, and otherwise the shift of the root node is
\* the least multiple s of 6 with max_live_key < 64 * 2^s.
C27_RootMinimal == crashed = "" => RootMinimal

\* the same for the trees that inserts alone build
C27_AfterInserts == crashed = "" => RootMinimal

\* what shrink does: a root left with its slot 0 alone gives way to that
\* child when the child is a leaf or a value
C27_ShrinksOverLeaf ==
    (crashed = "" /\ is_node(xa.head) /\ heap[as_node(xa.head)].count = 1
       /\ node_entry(heap[as_node(xa.head)], 0) # EMPTY)
        => /\ is_node(node_entry(heap[as_node(xa.head)], 0))
           /\ heap[as_node(node_entry(heap[as_node(xa.head)], 0))].shift > 0

\* -------------------------------------------------------- parent pointers

\* the head is empty, a direct value, or a node without a parent
HeadWellFormed ==
    \/ is_null(xa.head)
    \/ is_value(xa.head)
    \/ /\ is_node(xa.head)
       /\ as_node(xa.head) \in Allocated
       /\ heap[as_node(xa.head)].parent = EMPTY

\* every node but the root has a parent in the tree whose slot at the
\* node's offset points to the node
ParentsPointBack ==
    \A c \in Allocated :
        xa.head # node(c)
            => /\ is_node(heap[c].parent)
               /\ as_node(heap[c].parent) \in ReachedSet
               /\ node_entry(heap[as_node(heap[c].parent)], heap[c].offset) = node(c)

\* C28: after every sequence of public operations the head is empty, a
\* direct value, or a node whose parent is empty, and every other node c has
\* a parent p that is a node of the tree with p.slots[c.offset] pointing to
\* c: also after root growth re-parents the old root and after root shrink
\* promotes a child.
C28_ParentsWellFormed == crashed = "" => (HeadWellFormed /\ ParentsPointBack)

\* the remove of key 64 made shrink promote the leaf of two values below 64
\* to the root
C28_Witness ==
    /\ last.op = "remove" /\ last.old # None /\ last.changed
    /\ last.key = CHUNK_SIZE
    /\ is_node(xa.head)
    /\ heap[as_node(xa.head)].shift = 0
    /\ heap[as_node(xa.head)].parent = EMPTY
    /\ Cardinality(Live) = 2

\* an insert made the root grow over a node, by two levels
C28_WitnessGrown ==
    /\ last.op = "insert" /\ last.key = U64_MAX /\ last.changed
    /\ Cardinality(Live) = 2
    /\ 1 \in Live
    /\ Cardinality(Allocated) = 2 * Levels - 1

\* ------------------------------------------------------------ empty nodes

\* C29: between public operations no node reachable from the head has
\* count 0: a remove that empties a node unlinks it from its parent and
\* frees it, and so upward, and leaves the head empty when the root itself
\* is emptied.
C29_NoEmptyNode ==
    crashed = ""
        => /\ \A n \in ReachedSet : heap[n].count > 0
           /\ Live = {} => xa.head = EMPTY

\* the remove of the largest key freed the nodes of its path below the
\* root, which keeps the path of the keys 0 and 1
C29_Witness ==
    /\ last.op = "remove" /\ last.old # None /\ last.changed
    /\ last.key = U64_MAX
    /\ Live = {0, 1}
    /\ Cardinality(Allocated) = Levels

\* the remove of the last key emptied the root of a tree of full height
C29_WitnessRoot ==
    /\ AllRemoved /\ last.key = U64_MAX /\ last.changed
    /\ xa.head = EMPTY

\* -------------------------------------------------- marks of the other keys

\* the keys of the pairs a loop collected
KeysOf(ps) == {ps[i][1] : i \in 1 .. Len(ps)}

\* the last operation was an insert or a remove between two mark-filtered
\* loops, and both loops and the operation returned
Framed == last.op \in {"insert", "remove"} /\ last.mark # NoMark /\ crashed = ""

\* the loops before and after report the same of every live key but the
\* key of the operation
OthersKept ==
    \A j \in Live \ {last.key} :
        (j \in KeysOf(last.before)) <=> (j \in KeysOf(last.after))

\* C30: an insert or remove at key k never changes, for a live key j # k and
\* a mark m, whether mark-filtered iteration reports j as marked m: also
\* when the insert grows the root and when the remove deletes nodes or
\* shrinks the root down to a direct head value.
C30_OthersKept == Framed => OthersKept

\* the same for inserts alone
C30_InsertKeeps == (Framed /\ last.op = "insert") => OthersKept

\* the same for removes that leave the array no mark bit that no live
\* value carries
C30_RemoveKeepsUnlessStale ==
    (Framed /\ last.op = "remove"
       /\ \A mark \in XaMark :
             is_marked(xa, mark) => \E j \in Live : <<j, mark>> \in smarks)
        => OthersKept

\* ------------------------------------------------- marks of a new value

\* the last operation stored a value at a key that held none, between two
\* loops over iter().filter_mark(mark) that returned
InsertedFresh ==
    /\ last.op = "insert" /\ last.mark # NoMark /\ last.old = None
    /\ crashed = ""

\* C31: a value just inserted at a key that held no value carries none of
\* the marks, whatever happened at the key before: after mark(m) on key k,
\* remove(k) and a new insert(k, v), iteration filtered by m does not yield k.
C31_InsertedUnmarked == InsertedFresh => last.key \notin KeysOf(last.after)

\* ------------------------------------------------------ CursorMut::next

\* the i-th next() on the live cursor moved the key by one and left the
\* cursor where current() is the value stored at the new key, or None
SteppedByOne(i) ==
    /\ yielded[i][2] = yielded[i][1] + 1
    /\ yielded[i][3] = Lookup(shadow, yielded[i][2])

\* the first i calls of next() started below the largest key
BelowLargest(i) == \A j \in 1 .. i : yielded[j][1] < U64_MAX

\* a call of next() fails only at the largest key
NextFailsAtLargest == crashed # "" => (crashed = "overflow" /\ range.xas.index = U64_MAX)

\* C32: CursorMut::next() moves the key of the cursor by exactly 1 from every
\* state of the cursor (fresh, in a leaf, at the last slot of a node, out of
\* bounds), and current() then returns the value stored at the new key, or
\* None.
C32_NextStepsByOne ==
    last.op \in {"cursor", "cursor_new"}
        => /\ \A i \in 1 .. Len(yielded) : BelowLargest(i) => SteppedByOne(i)
           /\ NextFailsAtLargest

\* the same for a cursor that current() has positioned
C32_PositionedStepsByOne ==
    last.op = "cursor"
        => /\ \A i \in 1 .. Len(yielded) : BelowLargest(i) => SteppedByOne(i)
           /\ NextFailsAtLargest

\* the same for the calls after the first on a fresh cursor
C32_FreshStepsLater ==
    last.op = "cursor_new"
        => /\ \A i \in 2 .. Len(yielded) : BelowLargest(i) => SteppedByOne(i)
           /\ NextFailsAtLargest

\* what the first next() on a fresh cursor does: the key stays
C32_FreshStays ==
    (last.op = "cursor_new" /\ Len(yielded) >= 1)
        => /\ yielded[1][2] = yielded[1][1]
           /\ yielded[1][3] = Lookup(shadow, yielded[1][1])


\* ------------------------------------------------- next_allocated, fresh

\* a fresh cursor was made at a key that holds no value and has live keys
\* above it
FreshAtEmpty ==
    /\ last.op = "cursor_new" /\ last.old = None
    /\ Len(Above(last.key)) >= 1

\* C33: for a fresh cursor at a key k that holds no value, next_allocated()
\* moves the cursor to the smallest live key above k when there is one: key()
\* is then that key and current() its value.
C33_FreshNextAllocated ==
    FreshAtEmpty =>
        /\ Len(yielded) >= 1 => yielded[1] = Above(last.key)[1]
        /\ crashed # "" => Len(yielded) >= 1

\* what the first next_allocated() on such a cursor does: the cursor stays on
\* k, where current() is None
C33_FreshStays ==
    (FreshAtEmpty /\ Len(yielded) >= 1) => yielded[1] = <<last.key, None>>

\* the second next_allocated() is the one that reaches the smallest live key
\* above k, unless the index arithmetic of a root of maximum height fails
C33_SecondReaches ==
    (FreshAtEmpty /\ Len(yielded) >= 2 /\ ~wrapped)
        => yielded[2] = Above(last.key)[1]


\* ------------------------------------------------------------ fused range

\* once a call of next() on the open range has returned None, every later
\* call has returned None
Fused ==
    \A i \in 1 .. Len(yielded) : \A j \in i .. Len(yielded) :
        yielded[i] = None => yielded[j] = None

\* C34: a range iterator is fused: once next() has returned None, every later
\* next() on the same iterator, with no mutation in between, returns None too.
C34_RangeFused == range.open => Fused


\* ------------------------------------------------------------ termination

\* the call of next() that has just returned, turn by turn, returned what
\* Range::next computes from the state the call began in
StepsAgree ==
    [][(range.open /\ Len(yielded') = Len(yielded) + 1)
         => LET r == range_next(Mach(last'.from, FALSE), range.end, range.mark) IN
            /\ Ok(r.m)
            /\ yielded' = Append(yielded, r.out)
            /\ range'.xas = r.m.xas]_vars

\* a call of next() under way returns, or panics
CallReturns == (~Idle) ~> Idle

\* an iterator that has returned from a call and is asked again and again
\* returns None, unless a call panics or the iterator is dropped (for a
\* mutation or for a new iterator, which has returned nothing yet)
ReturnsNone ==
    (range.open /\ yielded # <<>>)
        ~> (Finished \/ crashed # "" \/ ~range.open \/ yielded = <<>>)

\* C35: every next() on a plain or mark-filtered range iterator terminates
\* in every reachable tree, the trees of the largest height where the
\* arithmetic on the index wraps included, and an iterator returns Some only
\* finitely many times before it returns None.
C35_NextTerminates == CallReturns /\ ReturnsNone

\* the keys an iterator yields before its first None increase, so they are
\* at most as many as the keys
C35_TakenIncrease ==
    LET ps == Taken(yielded) IN
    \A i \in 1 .. Len(ps) : \A j \in 1 .. Len(ps) : (i < j) => (ps[i][1] < ps[j][1])

\* an iterator over a tree of the largest height has yielded a pair, the
\* index has wrapped in the scan, and a later call has returned None
C35_Witness ==
    /\ range.open /\ Idle /\ crashed = "" /\ wrapped
    /\ Finished /\ Len(Taken(yielded)) >= 1
    /\ is_node(xa.head) /\ node_max_index_overflows(heap[as_node(xa.head)])

\* a call is in the scan of find, past the last slot of a node that is not
\* the root
C35_WitnessClimb ==
    /\ last.pc = "find" /\ is_some(range.xas.node)
    /\ range.xas.offset = CHUNK_SIZE
    /\ is_node(heap[range.xas.node.n].parent)

\* a call is in the scan of find_marked, in a leaf
C35_WitnessMarked ==
    /\ last.pc = "marked" /\ is_some(range.xas.node)
    /\ heap[range.xas.node.n].shift = 0


\* ------------------------------------------------- frame of mark, unmark

\* slot i of node n is on the path of key k
OnPath(n, i, k) ==
    /\ Shr(k, heap[n].shift + CHUNK_SHIFT) = Shr(NodeBase(n), heap[n].shift + CHUNK_SHIFT)
    /\ i = get_offset(heap[n], k)

\* key j carries the mark in the tree of head x over the nodes h: the bit of
\* its slot and the bits of its summaries are set, down to its leaf
RECURSIVE PathMarked(_, _, _, _)
PathMarked(h, n, j, mark) ==
    LET o == get_offset(h[n], j)
        e == node_entry(h[n], o)
    IN  /\ o \in h[n].marks[mark]
        /\ IF is_node(e) THEN PathMarked(h, as_node(e), j, mark) ELSE TRUE

KeyMarked(x, h, j, mark) ==
    IF is_node(x.head)
    THEN /\ Shr(j, h[as_node(x.head)].shift) <= CHUNK_MASK
         /\ PathMarked(h, as_node(x.head), j, mark)
    ELSE j = 0 /\ is_value(x.head) /\ mark \in x.marks

\* the value key j holds in the tree of head x over the nodes h
RECURSIVE ValueFrom(_, _, _)
ValueFrom(h, n, j) ==
    LET e == node_entry(h[n], get_offset(h[n], j)) IN
    IF is_node(e) THEN ValueFrom(h, as_node(e), j) ELSE OptValue(e)

ValueAt(x, h, j) ==
    IF is_node(x.head)
    THEN IF Shr(j, h[as_node(x.head)].shift) <= CHUNK_MASK
         THEN ValueFrom(h, as_node(x.head), j) ELSE None
    ELSE IF j = 0 THEN OptValue(x.head) ELSE None

\* a step of mark(m) or unmark(m) at key k leaves the nodes, their slots and
\* counts, the other marks and the m-mark of the other keys as they were
FrameOfMark(k, mark) ==
    /\ xa'.head = xa.head
    /\ xa'.marks \ {mark} = xa.marks \ {mark}
    /\ \A j \in ProbeKeys : ValueAt(xa', heap', j) = ValueAt(xa, heap, j)
    /\ \A n \in NodeIds :
          /\ (heap'[n] = NoNode) <=> (heap[n] = NoNode)
          /\ heap[n] # NoNode =>
                /\ heap'[n].count = heap[n].count
                /\ heap'[n].nr_value = heap[n].nr_value
                /\ heap'[n].slots = heap[n].slots
                /\ heap'[n].shift = heap[n].shift
                /\ heap'[n].offset = heap[n].offset
                /\ heap'[n].parent = heap[n].parent
                /\ \A o \in XaMark \ {mark} : heap'[n].marks[o] = heap[n].marks[o]
                /\ \A i \in Offsets :
                      ((i \in heap'[n].marks[mark]) # (i \in heap[n].marks[mark]))
                          => OnPath(n, i, k)
    /\ \A j \in ProbeKeys \ {k} :
          KeyMarked(xa', heap', j, mark) = KeyMarked(xa, heap, j, mark)

\* C36: mark(m) and unmark(m) at key k change only the m-mark of k and its
\* summaries: get(j) of every key j, the count and nr_value of every node,
\* the set of nodes, the m-mark of every other key and the other two marks of
\* every key stay as they were.
C36_MarkFrame ==
    [][(last'.op \in {"mark", "unmark"} /\ crashed' = "")
         => FrameOfMark(last'.key, last'.mark)]_vars

\* unmark has cleared the bit of a key whose leaf holds another marked key,
\* in a tree of two levels or more
C36_Witness ==
    /\ last.op = "unmark" /\ last.changed /\ crashed = ""
    /\ last.key = 0 /\ <<1, last.mark>> \in smarks
    /\ KeyMarked(xa, heap, 1, last.mark) /\ ~KeyMarked(xa, heap, 0, last.mark)
    /\ is_node(xa.head) /\ heap[as_node(xa.head)].shift > 0

\* mark has set the bit of a key and of its summaries while the other mark
\* is carried by another key
C36_WitnessMark ==
    /\ last.op = "mark" /\ last.changed /\ crashed = ""
    /\ \E j \in Live \ {last.key} : \E o \in XaMark \ {last.mark} :
          KeyMarked(xa, heap, j, o)


\* ------------------------------------------------------ shape of the tree

\* values lie in the nodes of shift 0 only, and a child is one level below
\* its parent
Levelled ==
    \A n \in ReachedSet : \A i \in DOMAIN heap[n].slots :
        LET e == heap[n].slots[i] IN
        /\ is_node(e) \/ is_value(e)
        /\ is_value(e) => heap[n].shift = 0
        /\ is_node(e) => /\ heap[n].shift > 0
                         /\ heap[as_node(e)].shift = heap[n].shift - CHUNK_SHIFT

\* C37: after every sequence of insert and remove calls, values are stored
\* only in nodes of shift 0 or as the direct head; the head is a direct value
\* only when key 0 is the only live key; the shift of every child is the
\* shift of its parent minus 6; and the key of every stored value is the
\* number its path from the root spells.
C37_TreeShape ==
    crashed = "" =>
        /\ Levelled
        /\ is_value(xa.head) => Live = {0}
        /\ Stored = {<<k, shadow[k]>> : k \in Live}

\* a remove has left three levels of nodes over two live keys or more
C37_Witness ==
    /\ crashed = "" /\ last.op = "remove" /\ last.old # None
    /\ Cardinality(Live) >= 2
    /\ is_node(xa.head) /\ heap[as_node(xa.head)].shift = 2 * CHUNK_SHIFT

\* a remove has left key 0 as the direct head
C37_WitnessHead ==
    /\ crashed = "" /\ last.op = "remove" /\ last.old # None
    /\ is_value(xa.head)


\* -------------------------------------------------------------- ownership

\* the step of the adapter made a value of a raw pointer only if the array
\* held it, and of none twice
OwnedOnce ==
    /\ \A i \in 1 .. Len(last.owned) : last.owned[i] \in last.held
    /\ \A i \in 1 .. Len(last.owned) : \A j \in 1 .. Len(last.owned) :
          (i # j) => (last.owned[i] # last.owned[j])

\* C38: the ownership adapter conserves ownership: every owned value passed
\* to its insert is made a value again exactly once, by a later remove of
\* its key or by the drop, and none is lost, also when the insert is rejected
\* because the key holds a value.
C38_OwnershipConserved ==
    (last.op \in {"owned_insert", "owned_remove", "owned_drop"} /\ crashed = "")
        => (last.lost = {} /\ OwnedOnce)

\* no value is made of a raw pointer twice, or of one the array did not hold
C38_OwnedOnce ==
    (last.op \in {"owned_insert", "owned_remove", "owned_drop"} /\ crashed = "")
        => OwnedOnce

\* an insert at a key that holds no value and a remove lose nothing
C38_StoredOrReturned ==
    [][(/\ last'.op \in {"owned_insert", "owned_remove"}
        /\ last'.op = "owned_insert" => last'.old = None
        /\ crashed' = "")
         => (last'.lost = last.lost
             /\ Held(xa', heap') = (Held(xa, heap) \cup last'.leaked)
                                      \ {last'.owned[i] : i \in 1 .. Len(last'.owned)})]_vars


\* -------------------------------------------------------------- find_mark

\* the smallest set bit at or after start, or CHUNK_SIZE
FirstFrom(bits, start) ==
    IF \E i \in bits : i >= start THEN Min({i \in bits : i >= start})
    ELSE CHUNK_SIZE

\* C39: for every bitmap of a mark and every start in 0..=64,
\* find_mark(start, m) returns the smallest slot i >= start whose bit is set
\* in marks[m], and 64 when there is none, start = 64 included.
C39_FindMarkSmallest ==
    last.op = "find_mark" => last.out = FirstFrom(last.before, last.key)

\* the scan has skipped set bits below a start in the upper half of the
\* bitmap and found a later one
C39_Witness ==
    /\ last.op = "find_mark" /\ last.key = 33
    /\ {0, 32, 62, 63} \subseteq last.before
    /\ last.out = 62

\* a start of 64 over a bitmap with bits set
C39_WitnessEnd ==
    /\ last.op = "find_mark" /\ last.key = CHUNK_SIZE
    /\ last.before # {} /\ last.out = CHUNK_SIZE

\* ---------------------------------------------------- sibling placeholder

\* C40: a sibling placeholder round-trips: for every offset v of a node, the
\* entry sibling(v) builds is recognised by is_sibling and by no other kind
\* predicate (it is not empty, not a value, not a node), and as_sibling
\* returns Some(v).
C40_SiblingRoundTrip ==
    last.op = "sibling" =>
        /\ is_sibling(last.val)
        /\ ~is_null(last.val) /\ ~is_value(last.val) /\ ~is_node(last.val)
        /\ last.out = Some(last.key)

\* what the code does: the entry is never a sibling to is_sibling, and
\* as_sibling returns None
C40_NeverSibling ==
    last.op = "sibling" => (~is_sibling(last.val) /\ last.out = None)

\* the shifted offset is there: the entry is v << 2, the empty entry for
\* v = 0 and neither a value nor a node
C40_ShiftedOffset ==
    last.op = "sibling" =>
        /\ last.val \div 4 = last.key /\ last.val % 4 = 0
        /\ is_null(last.val) <=> last.key = 0
        /\ ~is_value(last.val) /\ ~is_node(last.val)
====
